---- MODULE Spec2Model ----
(***************************************************************************)
(* Model of the Vulkan rendering core of machinate: the device/swapchain   *)
(* context (src/src/vk/context.cpp), the render thread's frame loop and    *)
(* the main thread's shutdown flag (main.cpp, src/unnamed/part_015), and   *)
(* the device's execution of the submitted batches.                        *)
(***************************************************************************)
EXTENDS Integers, Sequences, FiniteSets, TLC

VARIABLES
    pc,            \* position of the render thread in its lambda
    rb_ret,        \* where the render thread continues after rebuild_swapchain
    ret,           \* value returned by the last start_render / present_frame
    res_acq,       \* result of the last acquireNextImageKHR
    res_pres,      \* outcome of the last presentKHR
    lv,            \* the lambda's locals sema_depth, sema_lc, sema_geom, sema_imgui
    running,       \* main()'s `running` flag
    builds,        \* number of create_swapchain calls so far (the generation)
    sc,            \* the context's swapchain-dependent members
    img_state,     \* presentation engine: state of each image of the swapchain
    img_idx,       \* context::img_idx
    frame,         \* context::frame
    fence_render,  \* context::fence_render (TRUE = signalled)
    sema,          \* the context's five semaphores (TRUE = signalled)
    gpu_pending,   \* batches submitted to the queues and not yet executed
    log,           \* history: the submissions recorded in the current frame
    ftrace,        \* history: frame states passed since the frame began
    fence_signals, \* history: signals of fence_render since its last reset
    need_rebuild,  \* history: a false return not yet answered by a rebuild
    rb_trace,      \* history: steps of the rebuild_swapchain call in progress
    last_exec,     \* history: the batch the device executed last
    acquired,      \* history: generation img_idx was acquired on (0 = none)
    sema_overrun,  \* history: a semaphore was signalled while still signalled
    vk_cam,        \* main()'s vk_cam: host data, staging and device buffers
    main_pc,       \* position of the main thread
    main_touched,  \* history: handles the main thread used while rendering
    destroyed,     \* history: GPU objects destroyed at shutdown, in order
    wrap,          \* vma_buffer / vma_image instances under test
    freed,         \* times the allocator freed each allocation
    errlog,        \* status codes logged by MXN_ERRF
    last_op,       \* history: the last operation on the instances
    lc,            \* a record_image_layout_change call and what it recorded
    sel,           \* a ctor_select_gpu call and its outcome
    mc,            \* polygonise: the cell given and what it returned
    hm,            \* model::from_heightmap: its loop counters and its mesh
    con,           \* the console: its two threads, its queue and history
    aud            \* media_context's audio: worker, caller and streams

vars == <<pc, rb_ret, ret, res_acq, res_pres, lv, running, builds, sc, img_state, img_idx, frame,
          fence_render, sema, gpu_pending, log, ftrace, fence_signals,
          need_rebuild, rb_trace, last_exec, acquired, sema_overrun,
          vk_cam, main_pc, main_touched, destroyed,
          wrap, freed, errlog, last_op, lc, sel, mc, hm, con, aud>>

(* The main thread's variables, and those of the operations checked apart   *)
(* from the frame loop.                                                     *)
main_vars == <<main_pc, main_touched, destroyed>>

(* The variables of what lies outside the Vulkan context.                   *)
lib_vars == <<mc, hm, con, aud>>

unit_vars == <<wrap, freed, errlog, last_op, lc, sel, lib_vars>>

----------------------------------------------------------------------------
(* Bounds of the model *)

MaxFrames == 2

MaxBuilds == 2

MaxImages == 3

(* Program constants *)

MIN_IMG_COUNT == 2

TILE_SIZE == 16

MAX_POINTLIGHTS_PER_TILE == 1023

DEFAULT_WINDOW_WIDTH == 800

DEFAULT_WINDOW_HEIGHT == 600

HalfWord == 2 ^ 16

(* Extent of the surface of the freshly created window.                     *)
InitialExtent == <<DEFAULT_WINDOW_WIDTH, DEFAULT_WINDOW_HEIGHT>>

(* Extents the surface reports once the window has been resized, maximised  *)
(* or minimised (caps.currentExtent or the clamped drawable size), as       *)
(* <<width, height>>.                                                       *)
SurfaceExtents ==
    {<<1920, 1080>>, <<800, 600>>, <<17, 17>>, <<16, 1>>, <<0, 0>>, <<0, 600>>}

ImageCounts == MIN_IMG_COUNT .. MaxImages

Semas == {"sema_renderdone", "sema_imgavail", "sema_lightculldone",
          "sema_prepassdone", "sema_imgui"}

AcquireResults == {"eSuccess", "eSuboptimalKHR", "eErrorOutOfDateKHR"}

PresentOutcomes ==
    {"eSuccess", "eSuboptimalKHR", "eErrorOutOfDateKHR", "OutOfDateKHRError"}

Range(s) == {s[i] : i \in 1 .. Len(s)}

----------------------------------------------------------------------------
(* Handles.  A handle remembers the swapchain generation it was created     *)
(* against; destroying an object leaves the member's value in place         *)
(* (no destroy() of the repository nulls its fields) but the object dead.   *)

NullHandle == [gen |-> 0, live |-> FALSE]

Handle(g) == [gen |-> g, live |-> TRUE]

Destroyed(h) == [h EXCEPT !.live = FALSE]

DestroyedAll(hs) == [i \in 1 .. Len(hs) |-> Destroyed(hs[i])]

----------------------------------------------------------------------------
(* uint32_t arithmetic of update_lightcull_tilecounts.  A uint32_t is kept  *)
(* as its two 16-bit halves so that the wrap of 0u - 1 is computed, not     *)
(* assumed.                                                                 *)

U32Dec(v) ==
    LET hi == v \div HalfWord
        lo == v % HalfWord
    IN  IF lo > 0 THEN <<hi, lo - 1>>
        ELSE IF hi > 0 THEN <<hi - 1, HalfWord - 1>>
        ELSE <<HalfWord - 1, HalfWord - 1>>

U32DivTile(p) == p[1] * (HalfWord \div TILE_SIZE) + (p[2] \div TILE_SIZE)

TileCountOf(d) == U32DivTile(U32Dec(d)) + 1

update_lightcull_tilecounts(e) == <<TileCountOf(e[1]), TileCountOf(e[2])>>

----------------------------------------------------------------------------
(* vk::DeviceSize arithmetic of create_and_write_lightvis_buffer.  A        *)
(* 64-bit unsigned value is kept as eight base-256 digits, least            *)
(* significant first, so that the product is computed with its wrap.        *)

ByteRadix == 2 ^ 8

DeviceSizeDigits == 2 ^ 3

(* sizeof(uint32_t) + sizeof(std::array<uint32_t, MAX_POINTLIGHTS_PER_TILE>) *)
TILE_BUFFERSIZE == 4 + 4 * MAX_POINTLIGHTS_PER_TILE

(* The digits of a value below 2^31, zero-extended to n digits.             *)
Digits(v, n) ==
    [i \in 1 .. n |->
        IF i <= 4 THEN (v \div (ByteRadix ^ (i - 1))) % ByteRadix ELSE 0]

RECURSIVE MulColumn(_, _, _, _)
(* Sum of a[i] * b[k + 1 - i] for i in 1 .. m: digit column k of a * b.     *)
MulColumn(a, b, k, m) ==
    IF m = 0 THEN 0
    ELSE MulColumn(a, b, k, m - 1)
         + (IF m <= Len(a) /\ k + 1 - m >= 1 /\ k + 1 - m <= Len(b)
            THEN a[m] * b[k + 1 - m] ELSE 0)

RECURSIVE MulDigits(_, _, _, _, _)
(* Digits k .. n of a * b, `carry` coming from column k - 1; what lies      *)
(* beyond digit n is dropped, as unsigned multiplication drops it.          *)
MulDigits(a, b, k, carry, n) ==
    IF k > n THEN <<>>
    ELSE LET s == MulColumn(a, b, k, k) + carry
         IN  <<s % ByteRadix>> \o MulDigits(a, b, k + 1, s \div ByteRadix, n)

(* a * b in 64-bit unsigned arithmetic.                                     *)
DeviceSizeMul(a, b) == MulDigits(a, b, 1, 0, DeviceSizeDigits)

(* TILE_BUFFERSIZE * tile_count.x * tile_count.y, evaluated left to right   *)
(* in size_t.                                                               *)
lightvis_bufsize(tiles) ==
    DeviceSizeMul(
        DeviceSizeMul(Digits(TILE_BUFFERSIZE, DeviceSizeDigits),
                      Digits(tiles[1], DeviceSizeDigits)),
        Digits(tiles[2], DeviceSizeDigits))

----------------------------------------------------------------------------
(* The swapchain-dependent members of the context.                          *)

NoSwapchain ==
    [swapchain |-> NullHandle, extent |-> <<0, 0>>, images |-> <<>>,
     imgviews |-> <<>>, depth_prepass |-> NullHandle,
     render_pass |-> NullHandle, imgui_pass |-> NullHandle,
     depth_image |-> NullHandle, framebufs |-> <<>>,
     prepass_framebuffer |-> NullHandle, descset_inter |-> 0,
     ppl_depth |-> NullHandle, ppl_render |-> NullHandle,
     ppl_comp |-> NullHandle, tile_count |-> <<0, 0>>,
     lightvis |-> [gen |-> 0, live |-> FALSE, tiles |-> <<0, 0>>,
                   size |-> <<0, 0, 0, 0, 0, 0, 0, 0>>],
     descset_lightcull |-> 0, cmdbufs_gfx |-> <<>>,
     cmdbuf_lightcull |-> [gen |-> 0, live |-> FALSE, recordings |-> 0,
                           dispatch |-> <<0, 0>>, lightvis |-> 0, ppl |-> 0],
     cmdbuf_prepass |-> NullHandle, cmdbuf_imgui |-> NullHandle]

(* create_and_write_lightvis_buffer: a buffer of                            *)
(* TILE_BUFFERSIZE * tile_count.x * tile_count.y bytes, kept here as the    *)
(* tile grid it was sized for and the size requested of the allocator.      *)
create_and_write_lightvis_buffer(g, tiles) ==
    [gen |-> g, live |-> TRUE, tiles |-> tiles,
     size |-> lightvis_bufsize(tiles)]

(* create_and_record_commandbuffers: one geometry buffer per framebuffer,   *)
(* the light-cull buffer allocated and recorded once (barrier over          *)
(* `lightvis`, dispatch(tile_count.x, tile_count.y, 1)), the prepass buffer *)
(* allocated only.                                                          *)
create_and_record_commandbuffers(g, nframebufs, tiles, lightvis, ppl_comp) ==
    [gfx |-> [i \in 1 .. nframebufs |-> Handle(g)],
     lightcull |-> [gen |-> g, live |-> TRUE, recordings |-> 1,
                    dispatch |-> tiles, lightvis |-> lightvis.gen,
                    ppl |-> ppl_comp.gen],
     prepass |-> Handle(g)]

(* create_swapchain against generation g, the surface reporting extent e    *)
(* and the new swapchain holding n images.                                  *)
create_swapchain(s, g, e, n) ==
    LET imgviews == [i \in 1 .. n |-> Handle(g)]
        framebufs == s.framebufs \o [i \in 1 .. Len(imgviews) |-> Handle(g)]
        ppl_comp == Handle(g)
        tiles == update_lightcull_tilecounts(e)
        lightvis == create_and_write_lightvis_buffer(g, tiles)
        cmdbufs == create_and_record_commandbuffers(
                       g, Len(framebufs), tiles, lightvis, ppl_comp)
    IN  [swapchain |-> Handle(g), extent |-> e,
         images |-> [i \in 1 .. n |-> Handle(g)],
         imgviews |-> imgviews,
         depth_prepass |-> Handle(g), render_pass |-> Handle(g),
         imgui_pass |-> Handle(g), depth_image |-> Handle(g),
         framebufs |-> framebufs, prepass_framebuffer |-> Handle(g),
         descset_inter |-> g,
         ppl_depth |-> Handle(g), ppl_render |-> Handle(g),
         ppl_comp |-> ppl_comp, tile_count |-> tiles,
         lightvis |-> lightvis, descset_lightcull |-> lightvis.gen,
         cmdbufs_gfx |-> cmdbufs.gfx, cmdbuf_lightcull |-> cmdbufs.lightcull,
         cmdbuf_prepass |-> cmdbufs.prepass, cmdbuf_imgui |-> Handle(g)]

(* Mutant: destroy_swapchain forgets framebufs.clear().                     *)
destroy_swapchain_noclear(s) ==
    [s EXCEPT !.ppl_render = Destroyed(@), !.ppl_depth = Destroyed(@),
              !.ppl_comp = Destroyed(@), !.framebufs = DestroyedAll(@),
              !.prepass_framebuffer = Destroyed(@),
              !.lightvis = Destroyed(@), !.cmdbufs_gfx = <<>>,
              !.cmdbuf_lightcull = Destroyed(@),
              !.cmdbuf_prepass = Destroyed(@),
              !.cmdbuf_imgui = Destroyed(@),
              !.depth_prepass = Destroyed(@), !.render_pass = Destroyed(@),
              !.imgui_pass = Destroyed(@), !.imgviews = <<>>,
              !.depth_image = Destroyed(@), !.swapchain = Destroyed(@),
              !.images = DestroyedAll(@)]

(* destroy_swapchain: every object is destroyed or freed; framebufs,        *)
(* cmdbufs_gfx and imgviews are cleared, the other members keep their       *)
(* (now dead) handles; `images` dies with the swapchain.                    *)
destroy_swapchain(s) ==
    [s EXCEPT !.ppl_render = Destroyed(@), !.ppl_depth = Destroyed(@),
              !.ppl_comp = Destroyed(@), !.framebufs = <<>>,
              !.prepass_framebuffer = Destroyed(@),
              !.lightvis = Destroyed(@), !.cmdbufs_gfx = <<>>,
              !.cmdbuf_lightcull = Destroyed(@),
              !.cmdbuf_prepass = Destroyed(@),
              !.cmdbuf_imgui = Destroyed(@),
              !.depth_prepass = Destroyed(@), !.render_pass = Destroyed(@),
              !.imgui_pass = Destroyed(@), !.imgviews = <<>>,
              !.depth_image = Destroyed(@), !.swapchain = Destroyed(@),
              !.images = DestroyedAll(@)]

----------------------------------------------------------------------------
(* Queue submissions and the device executing them.                         *)

NoBatch ==
    [stage |-> "none", queue |-> "none", waits |-> <<>>, signal |-> "none",
     fence |-> FALSE, cmdbuf |-> NullHandle, frame |-> 0, img |-> 0]

Batch(stage, queue, waits, signal, fence, cmdbuf) ==
    [stage |-> stage, queue |-> queue, waits |-> waits, signal |-> signal,
     fence |-> fence, cmdbuf |-> cmdbuf, frame |-> frame, img |-> img_idx]

QueueIdle(q) == \A i \in 1 .. Len(gpu_pending) : gpu_pending[i].queue # q

DeviceIdle == gpu_pending = <<>>

RemoveAt(s, i) == SubSeq(s, 1, i - 1) \o SubSeq(s, i + 1, Len(s))

(* cmdbufs_gfx[img_idx] / framebufs[img_idx]: an index past the end reads   *)
(* no object of the vector.                                                 *)
InRange(v) == img_idx < Len(v)

AtImgIdx(v) == IF InRange(v) THEN v[img_idx + 1] ELSE NullHandle

(* cmdbuf.copyBuffer(buffer, other.buffer, regions) of vma_buffer::copy_to, *)
(* as the device executes it: the staging contents reach the device buffer. *)
copyBuffer(u) ==
    [u EXCEPT !.buffer = u.staging, !.trace = Append(@, "device")]

(* The device executes the i-th pending batch once it heads its queue       *)
(* (batches of one queue begin in submission order) and every semaphore of  *)
(* its wait list is signalled: the waits are consumed, its semaphore and    *)
(* fence are signalled, and a presented image returns to the swapchain.     *)
gpu_execute(i) ==
    LET b == gpu_pending[i] IN
    /\ \A j \in 1 .. i - 1 : gpu_pending[j].queue # b.queue
    /\ \A w \in Range(b.waits) : sema[w]
    /\ sema' = [x \in Semas |->
                   IF x = b.signal THEN TRUE
                   ELSE IF x \in Range(b.waits) THEN FALSE
                   ELSE sema[x]]
    /\ sema_overrun' =
           (sema_overrun \/
            (b.signal \in Semas /\ sema[b.signal]
             /\ b.signal \notin Range(b.waits)))
    /\ fence_render' = (fence_render \/ b.fence)
    /\ fence_signals' = fence_signals + (IF b.fence THEN 1 ELSE 0)
    /\ gpu_pending' = RemoveAt(gpu_pending, i)
    /\ img_state' =
           IF b.stage = "present" /\ b.img < Len(img_state)
           THEN [img_state EXCEPT ![b.img + 1] = "free"]
           ELSE img_state
    /\ last_exec' = b
    /\ vk_cam' = IF b.stage = "copy" THEN copyBuffer(vk_cam) ELSE vk_cam
    /\ UNCHANGED <<unit_vars, main_vars, res_acq, res_pres, pc, rb_ret, ret, lv, running, builds, sc, img_idx, frame,
                   log, ftrace, need_rebuild, rb_trace, acquired>>

gpu_step == \E i \in 1 .. Len(gpu_pending) : gpu_execute(i)

----------------------------------------------------------------------------
(* The frame protocol of the context.  Each operation states what it does   *)
(* to the context; the render loop below adds the control flow.             *)

(* Mutant: start_render returns true only on eSuccess.                      *)
start_render_strict ==
    /\ fence_render
    /\ fence_render' = FALSE
    /\ fence_signals' = 0
    /\ \E res \in AcquireResults :
          /\ (res # "eSuccess") => builds < MaxBuilds
          /\ IF res # "eErrorOutOfDateKHR"
             THEN \E i \in 1 .. Len(img_state) :
                     /\ img_state[i] = "free"
                     /\ img_state' = [img_state EXCEPT ![i] = "acquired"]
                     /\ img_idx' = i - 1
                     /\ sema' = [sema EXCEPT !["sema_imgavail"] = TRUE]
                     /\ sema_overrun' =
                            (sema_overrun \/ sema["sema_imgavail"])
                     /\ acquired' = builds
                     /\ ftrace' = Append(ftrace, "ACQUIRED")
             ELSE /\ img_idx' \in 0 .. MaxImages
                  /\ acquired' = 0
                  /\ UNCHANGED <<img_state, sema, sema_overrun, ftrace>>
          /\ res_acq' = res
          /\ ret' = (res = "eSuccess")
          /\ need_rebuild' = (need_rebuild \/ res # "eSuccess")

(* start_render: wait for fence_render, reset it, acquire the next image.   *)
(* A successful or suboptimal acquire hands out a free image and signals    *)
(* sema_imgavail; an out-of-date acquire does neither and leaves            *)
(* res_acq.value, hence img_idx, indeterminate.                             *)
start_render ==
    /\ fence_render
    /\ fence_render' = FALSE
    /\ fence_signals' = 0
    /\ \E res \in AcquireResults :
          /\ (res = "eErrorOutOfDateKHR") => builds < MaxBuilds
          /\ IF res # "eErrorOutOfDateKHR"
             THEN \E i \in 1 .. Len(img_state) :
                     /\ img_state[i] = "free"
                     /\ img_state' = [img_state EXCEPT ![i] = "acquired"]
                     /\ img_idx' = i - 1
                     /\ sema' = [sema EXCEPT !["sema_imgavail"] = TRUE]
                     /\ sema_overrun' =
                            (sema_overrun \/ sema["sema_imgavail"])
                     /\ acquired' = builds
                     /\ ftrace' = Append(ftrace, "ACQUIRED")
             ELSE /\ img_idx' \in 0 .. MaxImages
                  /\ acquired' = 0
                  /\ UNCHANGED <<img_state, sema, sema_overrun, ftrace>>
          /\ res_acq' = res
          /\ ret' = (res # "eErrorOutOfDateKHR")
          /\ need_rebuild' = (need_rebuild \/ res = "eErrorOutOfDateKHR")

(* start_render_record and end_render_record: reset, begin and end          *)
(* cmdbufs_gfx[img_idx] (against framebufs[img_idx]) and cmdbuf_prepass.    *)
start_render_record ==
    /\ ftrace' = Append(ftrace, "RECORDED")

(* Append a batch to its queue and to the frame's record of submissions.    *)
QueueSubmit(b) ==
    /\ gpu_pending' = Append(gpu_pending, b)
    /\ log' = Append(log, b)

(* Mutant: the prepass submission also carries fence_render.                *)
submit_prepass_fenced(wait_semas, out) ==
    /\ QueueSubmit(Batch("prepass", "q_gfx", wait_semas, "sema_prepassdone",
                         TRUE, sc.cmdbuf_prepass))
    /\ lv' = [lv EXCEPT ![out] = "sema_prepassdone"]
    /\ ftrace' = Append(ftrace, "SUBMITTED(prepass)")

submit_prepass(wait_semas, out) ==
    /\ QueueSubmit(Batch("prepass", "q_gfx", wait_semas, "sema_prepassdone",
                         FALSE, sc.cmdbuf_prepass))
    /\ lv' = [lv EXCEPT ![out] = "sema_prepassdone"]
    /\ ftrace' = Append(ftrace, "SUBMITTED(prepass)")

compute_lightcull(wait_semas, out) ==
    /\ QueueSubmit(Batch("cull", "q_comp", wait_semas, "sema_lightculldone",
                         FALSE, sc.cmdbuf_lightcull))
    /\ lv' = [lv EXCEPT ![out] = "sema_lightculldone"]
    /\ ftrace' = Append(ftrace, "SUBMITTED(cull)")

(* Mutant: the geometry submission drops the caller's wait list.            *)
submit_geometry_nowait(wait_semas, out) ==
    LET ws == <<"sema_imgavail">> IN
    /\ QueueSubmit(Batch("geometry", "q_gfx", ws, "sema_renderdone",
                         FALSE, AtImgIdx(sc.cmdbufs_gfx)))
    /\ lv' = [lv EXCEPT ![out] = "sema_renderdone"]
    /\ ftrace' = Append(ftrace, "SUBMITTED(geometry)")

submit_geometry(wait_semas, out) ==
    LET ws == <<"sema_imgavail">> \o wait_semas IN
    /\ QueueSubmit(Batch("geometry", "q_gfx", ws, "sema_renderdone",
                         FALSE, AtImgIdx(sc.cmdbufs_gfx)))
    /\ lv' = [lv EXCEPT ![out] = "sema_renderdone"]
    /\ ftrace' = Append(ftrace, "SUBMITTED(geometry)")

render_imgui(wait_semas, out) ==
    /\ QueueSubmit(Batch("overlay", "q_gfx", wait_semas, "sema_imgui",
                         TRUE, sc.cmdbuf_imgui))
    /\ lv' = [lv EXCEPT ![out] = "sema_imgui"]
    /\ ftrace' = Append(ftrace, "SUBMITTED(overlay)")

(* Mutant: frame++ sits inside the try block, after presentKHR.             *)
present_frame_countinside(wait_sema) ==
    \E outcome \in PresentOutcomes :
       LET thrown == outcome = "OutOfDateKHRError"
           r == IF thrown THEN FALSE
                ELSE IF outcome = "eSuboptimalKHR" THEN FALSE
                ELSE TRUE
       IN  /\ ~r => builds < MaxBuilds
           /\ QueueSubmit(Batch("present", "q_pres", <<wait_sema>>, "none",
                                FALSE, NullHandle))
           /\ img_state' =
                  IF img_idx < Len(img_state)
                     /\ img_state[img_idx + 1] = "acquired"
                  THEN [img_state EXCEPT ![img_idx + 1] = "queued"]
                  ELSE img_state
           /\ frame' = IF thrown THEN frame ELSE frame + 1
           /\ res_pres' = outcome
           /\ ret' = r
           /\ need_rebuild' = (need_rebuild \/ ~r)
           /\ ftrace' = Append(ftrace, "PRESENTED")

(* present_frame: the present request is queued behind wait_sema whatever   *)
(* its outcome; `ret` becomes false on a suboptimal result and in the       *)
(* handler of OutOfDateKHRError, and frame is incremented on every path.    *)
present_frame(wait_sema) ==
    \E outcome \in PresentOutcomes :
       LET thrown == outcome = "OutOfDateKHRError"
           r == IF thrown THEN FALSE
                ELSE IF outcome = "eSuboptimalKHR" THEN FALSE
                ELSE TRUE
       IN  /\ ~r => builds < MaxBuilds
           /\ QueueSubmit(Batch("present", "q_pres", <<wait_sema>>, "none",
                                FALSE, NullHandle))
           /\ img_state' =
                  IF img_idx < Len(img_state)
                     /\ img_state[img_idx + 1] = "acquired"
                  THEN [img_state EXCEPT ![img_idx + 1] = "queued"]
                  ELSE img_state
           /\ frame' = frame + 1
           /\ res_pres' = outcome
           /\ ret' = r
           /\ need_rebuild' = (need_rebuild \/ ~r)
           /\ ftrace' = Append(ftrace, "PRESENTED")

----------------------------------------------------------------------------
(* rebuild_swapchain, one action per statement.                             *)

(* Mutant: rebuild_swapchain tears down without the first waitIdle.         *)
rebuild_waitidle_1_skipped ==
    /\ pc = "rebuild_waitidle_1"
    /\ pc' = "rebuild_destroy"
    /\ rb_trace' = Append(rb_trace, "waitIdle")
    /\ UNCHANGED <<unit_vars, main_vars, vk_cam, res_acq, res_pres, rb_ret, ret, lv, running, builds, sc,
                   img_state, img_idx, frame, fence_render, sema,
                   gpu_pending, log, ftrace, fence_signals, need_rebuild,
                   last_exec, acquired, sema_overrun>>

rebuild_waitidle_1 ==
    /\ pc = "rebuild_waitidle_1"
    /\ DeviceIdle
    /\ pc' = "rebuild_destroy"
    /\ rb_trace' = Append(rb_trace, "waitIdle")
    /\ UNCHANGED <<unit_vars, main_vars, vk_cam, res_acq, res_pres, rb_ret, ret, lv, running, builds, sc, img_state, img_idx,
                   frame, fence_render, sema, gpu_pending, log, ftrace,
                   fence_signals, need_rebuild, last_exec, acquired,
                   sema_overrun>>

rebuild_destroy ==
    /\ pc = "rebuild_destroy"
    /\ sc' = destroy_swapchain(sc)
    /\ img_state' = <<>>
    /\ pc' = "rebuild_waitidle_2"
    /\ rb_trace' = Append(rb_trace, "destroy_swapchain")
    /\ UNCHANGED <<unit_vars, main_vars, vk_cam, res_acq, res_pres, rb_ret, ret, lv, running, builds, img_idx, frame,
                   fence_render, sema, gpu_pending, log, ftrace,
                   fence_signals, need_rebuild, last_exec, acquired,
                   sema_overrun>>

rebuild_waitidle_2 ==
    /\ pc = "rebuild_waitidle_2"
    /\ DeviceIdle
    /\ pc' = "rebuild_create"
    /\ rb_trace' = Append(rb_trace, "waitIdle")
    /\ UNCHANGED <<unit_vars, main_vars, vk_cam, res_acq, res_pres, rb_ret, ret, lv, running, builds, sc, img_state, img_idx,
                   frame, fence_render, sema, gpu_pending, log, ftrace,
                   fence_signals, need_rebuild, last_exec, acquired,
                   sema_overrun>>

rebuild_create ==
    /\ pc = "rebuild_create"
    /\ \E e \in SurfaceExtents, n \in ImageCounts :
          /\ sc' = create_swapchain(sc, builds + 1, e, n)
          /\ img_state' = [i \in 1 .. n |-> "free"]
    /\ builds' = builds + 1
    /\ pc' = rb_ret
    /\ rb_trace' = Append(rb_trace, "create_swapchain")
    /\ need_rebuild' = FALSE
    /\ ftrace' = <<"IDLE">>
    /\ UNCHANGED <<unit_vars, main_vars, vk_cam, res_acq, res_pres, rb_ret, ret, lv, running, img_idx, frame, fence_render,
                   sema, gpu_pending, log, fence_signals, last_exec, acquired,
                   sema_overrun>>

rebuild_swapchain ==
    \/ rebuild_waitidle_1
    \/ rebuild_destroy
    \/ rebuild_waitidle_2
    \/ rebuild_create

----------------------------------------------------------------------------
(* The render thread's loop (the lambda of main()).                         *)

(* new_imgui_frame, ShowMetricsWindow, console->draw()                      *)
frame_begin ==
    /\ pc = "frame_begin"
    /\ frame < MaxFrames
    /\ pc' = "ubo_update"
    /\ log' = <<>>
    /\ ftrace' = <<"IDLE">>
    /\ UNCHANGED <<unit_vars, main_vars, vk_cam, res_acq, res_pres, rb_ret, ret, lv, running, builds, sc, img_state, img_idx,
                   frame, fence_render, sema, gpu_pending, fence_signals,
                   need_rebuild, rb_trace, last_exec, acquired, sema_overrun>>

(* The one-time command buffer of begin_onetime_buffer, as submitted by     *)
(* consume_onetime_buffer: no semaphores, no fence, on q_gfx.  It is none   *)
(* of a frame's submissions, and is numbered apart from them.               *)
OnetimeBatch ==
    [stage |-> "copy", queue |-> "q_gfx", waits |-> <<>>, signal |-> "none",
     fence |-> FALSE, cmdbuf |-> NullHandle, frame |-> 0 - (frame + 1),
     img |-> 0]

CopyInFlight == \E i \in 1 .. Len(gpu_pending) : gpu_pending[i].stage = "copy"

(* Mutant: update() writes the host value straight into the device buffer.  *)
ubo_memcpy_direct(u) ==
    [u EXCEPT !.buffer = u.data, !.trace = <<"device">>]

(* ubo::update up to the copy: map the staging allocation, memcpy `data`    *)
(* into it, unmap.                                                          *)
ubo_memcpy(u) ==
    [u EXCEPT !.staging = u.data, !.trace = <<"staging">>]

(* vk_cam.data.update(vulkan, camera); vk_cam.update(vulkan) up to the      *)
(* q_gfx.submit of consume_onetime_buffer: the host value of this frame is  *)
(* copied into staging and the staging-to-device copy is submitted.         *)
ubo_update ==
    /\ pc = "ubo_update"
    /\ LET fresh == [vk_cam EXCEPT !.data = frame + 1] IN
          vk_cam' = [ubo_memcpy(fresh) EXCEPT !.trace = Append(@, "submit")]
    /\ gpu_pending' = Append(gpu_pending, OnetimeBatch)
    /\ pc' = "consume_onetime_buffer"
    /\ UNCHANGED <<unit_vars, main_vars, res_acq, res_pres, rb_ret, ret, lv,
                   running, builds, sc, img_state, img_idx, frame,
                   fence_render, sema, log, ftrace, fence_signals,
                   need_rebuild, rb_trace, last_exec, acquired, sema_overrun>>

(* Mutant: consume_onetime_buffer frees the buffer without q_gfx.waitIdle(). *)
consume_onetime_buffer_nowait ==
    /\ pc = "consume_onetime_buffer"
    /\ pc' = "start_render"
    /\ UNCHANGED <<unit_vars, main_vars, vk_cam, res_acq, res_pres, rb_ret,
                   ret, lv, running, builds, sc, img_state, img_idx, frame,
                   fence_render, sema, gpu_pending, log, ftrace,
                   fence_signals, need_rebuild, rb_trace, last_exec, acquired,
                   sema_overrun>>

(* consume_onetime_buffer after the submit: q_gfx.waitIdle() returns once   *)
(* q_gfx has nothing left to execute; update() then returns.                *)
consume_onetime_buffer ==
    /\ pc = "consume_onetime_buffer"
    /\ QueueIdle("q_gfx")
    /\ pc' = "start_render"
    /\ UNCHANGED <<unit_vars, main_vars, vk_cam, res_acq, res_pres, rb_ret,
                   ret, lv, running, builds, sc, img_state, img_idx, frame,
                   fence_render, sema, gpu_pending, log, ftrace,
                   fence_signals, need_rebuild, rb_trace, last_exec, acquired,
                   sema_overrun>>

loop_start_render ==
    /\ pc = "start_render"
    /\ start_render
    /\ pc' = "start_render_ret"
    /\ UNCHANGED <<unit_vars, main_vars, vk_cam, res_pres, rb_ret, lv, running, builds, sc, frame, gpu_pending, log,
                   rb_trace, last_exec>>

(* if (!vulkan.start_render()) vulkan.rebuild_swapchain(...);               *)
loop_start_render_ret ==
    /\ pc = "start_render_ret"
    /\ IF ~ret
       THEN /\ pc' = "rebuild_waitidle_1"
            /\ rb_ret' = "record"
            /\ rb_trace' = <<>>
       ELSE /\ pc' = "record"
            /\ UNCHANGED <<res_acq, res_pres, rb_ret, rb_trace>>
    /\ UNCHANGED <<unit_vars, main_vars, vk_cam, res_acq, res_pres, ret, lv, running, builds, sc, img_state, img_idx, frame,
                   fence_render, sema, gpu_pending, log, ftrace,
                   fence_signals, need_rebuild, last_exec, acquired,
                   sema_overrun>>

(* set_camera, start_render_record, end_render_record.  With img_idx past   *)
(* the end of cmdbufs_gfx the behaviour is undefined: the thread may crash  *)
(* or carry on with whatever the read produced.                             *)
loop_record ==
    /\ pc = "record"
    /\ start_render_record
    /\ pc' \in (IF InRange(sc.cmdbufs_gfx) THEN {"submit_prepass"}
                ELSE {"submit_prepass", "crashed"})
    /\ UNCHANGED <<unit_vars, main_vars, vk_cam, res_acq, res_pres, rb_ret, ret, lv, running, builds, sc, img_state, img_idx,
                   frame, fence_render, sema, gpu_pending, log,
                   fence_signals, need_rebuild, rb_trace, last_exec, acquired,
                   sema_overrun>>

loop_submit_prepass ==
    /\ pc = "submit_prepass"
    /\ submit_prepass(<<>>, "sema_depth")
    /\ pc' = "compute_lightcull"
    /\ UNCHANGED <<unit_vars, main_vars, vk_cam, res_acq, res_pres, rb_ret, ret, running, builds, sc, img_state, img_idx,
                   frame, fence_render, sema, fence_signals, need_rebuild,
                   rb_trace, last_exec, acquired, sema_overrun>>

(* Mutant: the loop re-records the light-cull buffer before submitting it.  *)
loop_compute_lightcull_rerecord ==
    /\ pc = "compute_lightcull"
    /\ sc' = [sc EXCEPT !.cmdbuf_lightcull.recordings = @ + 1]
    /\ QueueSubmit(Batch("cull", "q_comp", <<lv.sema_depth>>,
                         "sema_lightculldone", FALSE, sc'.cmdbuf_lightcull))
    /\ lv' = [lv EXCEPT !.sema_lc = "sema_lightculldone"]
    /\ ftrace' = Append(ftrace, "SUBMITTED(cull)")
    /\ pc' = "submit_geometry"
    /\ UNCHANGED <<unit_vars, main_vars, vk_cam, res_acq, res_pres, rb_ret, ret, running, builds,
                   img_state, img_idx, frame, fence_render, sema,
                   fence_signals, need_rebuild, rb_trace, last_exec,
                   acquired, sema_overrun>>

loop_compute_lightcull ==
    /\ pc = "compute_lightcull"
    /\ compute_lightcull(<<lv.sema_depth>>, "sema_lc")
    /\ pc' = "submit_geometry"
    /\ UNCHANGED <<unit_vars, main_vars, vk_cam, res_acq, res_pres, rb_ret, ret, running, builds, sc, img_state, img_idx,
                   frame, fence_render, sema, fence_signals, need_rebuild,
                   rb_trace, last_exec, acquired, sema_overrun>>

loop_submit_geometry ==
    /\ pc = "submit_geometry"
    /\ submit_geometry(<<lv.sema_lc>>, "sema_geom")
    /\ pc' = "render_imgui"
    /\ UNCHANGED <<unit_vars, main_vars, vk_cam, res_acq, res_pres, rb_ret, ret, running, builds, sc, img_state, img_idx,
                   frame, fence_render, sema, fence_signals, need_rebuild,
                   rb_trace, last_exec, acquired, sema_overrun>>

loop_render_imgui ==
    /\ pc = "render_imgui"
    /\ render_imgui(<<lv.sema_geom>>, "sema_imgui")
    /\ pc' = "present_frame"
    /\ UNCHANGED <<unit_vars, main_vars, vk_cam, res_acq, res_pres, rb_ret, ret, running, builds, sc, img_state, img_idx,
                   frame, fence_render, sema, fence_signals, need_rebuild,
                   rb_trace, last_exec, acquired, sema_overrun>>

loop_present_frame ==
    /\ pc = "present_frame"
    /\ present_frame(lv.sema_imgui)
    /\ pc' = "present_frame_ret"
    /\ UNCHANGED <<unit_vars, main_vars, vk_cam, res_acq, rb_ret, lv, running, builds, sc, img_idx, fence_render,
                   sema, fence_signals, rb_trace, last_exec, acquired,
                   sema_overrun>>

(* Mutant: the loop ignores present_frame's return value.                   *)
loop_present_frame_ret_ignored ==
    /\ pc = "present_frame_ret"
    /\ pc' = "loop_end"
    /\ UNCHANGED <<unit_vars, main_vars, vk_cam, res_acq, res_pres, rb_ret, rb_trace, ret, lv, running,
                   builds, sc, img_state, img_idx, frame, fence_render, sema,
                   gpu_pending, log, ftrace, fence_signals, need_rebuild,
                   last_exec, acquired, sema_overrun>>

(* if (!vulkan.present_frame(sema_imgui)) vulkan.rebuild_swapchain(...);    *)
loop_present_frame_ret ==
    /\ pc = "present_frame_ret"
    /\ IF ~ret
       THEN /\ pc' = "rebuild_waitidle_1"
            /\ rb_ret' = "loop_end"
            /\ rb_trace' = <<>>
       ELSE /\ pc' = "loop_end"
            /\ UNCHANGED <<res_acq, res_pres, rb_ret, rb_trace>>
    /\ UNCHANGED <<unit_vars, main_vars, vk_cam, res_acq, res_pres, ret, lv, running, builds, sc, img_state, img_idx, frame,
                   fence_render, sema, gpu_pending, log, ftrace,
                   fence_signals, need_rebuild, last_exec, acquired,
                   sema_overrun>>

(* } while (running);                                                       *)
loop_end ==
    /\ pc = "loop_end"
    /\ pc' = IF running THEN "frame_begin" ELSE "final_waitidle"
    /\ UNCHANGED <<unit_vars, main_vars, vk_cam, res_acq, res_pres, rb_ret, ret, lv, running, builds, sc, img_state, img_idx,
                   frame, fence_render, sema, gpu_pending, log, ftrace,
                   fence_signals, need_rebuild, rb_trace, last_exec, acquired,
                   sema_overrun>>

(* vulkan.device.waitIdle() at the end of the lambda                        *)
final_waitidle ==
    /\ pc = "final_waitidle"
    /\ DeviceIdle
    /\ pc' = "done"
    /\ UNCHANGED <<unit_vars, main_vars, vk_cam, res_acq, res_pres, rb_ret, ret, lv, running, builds, sc, img_state, img_idx,
                   frame, fence_render, sema, gpu_pending, log, ftrace,
                   fence_signals, need_rebuild, rb_trace, last_exec, acquired,
                   sema_overrun>>

(* The main thread.                                                         *)

(* What the render thread and the device own: everything but `running`,     *)
(* the context's swapchain set and the main thread's own variables.         *)
render_vars ==
    <<pc, rb_ret, ret, res_acq, res_pres, lv, builds, img_state, img_idx,
      frame, fence_render, sema, gpu_pending, log, ftrace, fence_signals,
      need_rebuild, rb_trace, last_exec, acquired, sema_overrun, vk_cam>>

(* Everything that belongs to the Vulkan context and the two threads of     *)
(* main().                                                                  *)
context_vars ==
    <<render_vars, running, sc, main_vars, wrap, freed, errlog, last_op, lc,
      sel>>

(* The console commands main() registers, with the arguments vkdiag reads.  *)
ConsoleCommands ==
    {<<"vkdiag">>, <<"vkdiag", "ext">>, <<"vkdiag", "gpu">>,
     <<"vkdiag", "queue">>, <<"file">>, <<"sound">>, <<"music">>}

(* The handles the render thread drives the frame protocol with.            *)
DeviceHandles ==
    {"device", "q_gfx", "q_comp", "q_pres", "descpool", "cmdpool_gfx",
     "cmdpool_comp", "swapchain", "vma"}

(* Mutant: vkdiag also asks the device to wait for idle.                    *)
vkdiag_waitidle(args) ==
    IF Len(args) <= 1 THEN {}
    ELSE IF args[2] \in {"ext", "gpu", "queue"} THEN {"gpu", "device"}
    ELSE {}

(* context::vkdiag: the handles it calls into.  `ext` enumerates the        *)
(* instance extensions (no handle) and the physical device's; `gpu` and     *)
(* `queue` query the physical device.                                       *)
vkdiag(args) ==
    IF Len(args) <= 1 THEN {}
    ELSE IF args[2] \in {"ext", "gpu", "queue"} THEN {"gpu"}
    ELSE {}

(* console->run_pending_commands() with the queue holding `cmds`: only the  *)
(* vkdiag command reaches the context.                                      *)
run_pending_commands(cmds) ==
    UNION {IF c[1] = "vkdiag" THEN vkdiag(c) ELSE {} : c \in cmds}

(* What the command queue holds when it is drained: nothing or one of the   *)
(* commands.                                                                *)
CommandQueues == {{}} \cup {{c} : c \in ConsoleCommands}

(* One iteration of the event loop that leaves `running` set: events that   *)
(* do not quit, then the pending console commands.                          *)
main_loop_iteration ==
    /\ main_pc = "event_loop"
    /\ running
    /\ main_touched' \in {main_touched \cup run_pending_commands(cmds) :
                             cmds \in CommandQueues}
    /\ UNCHANGED <<unit_vars, render_vars, running, sc, main_pc, destroyed>>

(* The iteration in which SDL_QUIT, Escape or an invalid window clears      *)
(* `running`: the pending commands still run, then the loop is left.        *)
main_quit ==
    /\ main_pc = "event_loop"
    /\ running
    /\ running' = FALSE
    /\ main_touched' \in {main_touched \cup run_pending_commands(cmds) :
                             cmds \in CommandQueues}
    /\ main_pc' = "join"
    /\ UNCHANGED <<unit_vars, render_vars, sc, destroyed>>

(* Mutant: main() goes on to the teardown without joining the thread.       *)
main_join_skipped ==
    /\ main_pc = "join"
    /\ main_pc' = "vk_cam_destroy"
    /\ UNCHANGED <<unit_vars, render_vars, running, sc, main_touched,
                   destroyed>>

(* render_thread.join() returns once the lambda has returned.               *)
main_join ==
    /\ main_pc = "join"
    /\ pc = "done"
    /\ main_pc' = "vk_cam_destroy"
    /\ UNCHANGED <<unit_vars, render_vars, running, sc, main_touched,
                   destroyed>>

(* vk_cam.destroy(vulkan)                                                   *)
main_vk_cam_destroy ==
    /\ main_pc = "vk_cam_destroy"
    /\ destroyed' = Append(destroyed, "vk_cam")
    /\ main_pc' = "dtor_waitidle"
    /\ UNCHANGED <<unit_vars, render_vars, running, sc, main_touched>>

(* context::~context, first statement: device.waitIdle()                    *)
dtor_waitidle ==
    /\ main_pc = "dtor_waitidle"
    /\ DeviceIdle
    /\ destroyed' = Append(destroyed, "waitIdle")
    /\ main_pc' = "dtor_destroy"
    /\ UNCHANGED <<unit_vars, render_vars, running, sc, main_touched>>

(* context::~context, the rest: the swapchain set, the context's uniform    *)
(* blocks, descriptor objects, semaphores and fence, command pools, and     *)
(* last the device and the instance.                                        *)
dtor_destroy ==
    /\ main_pc = "dtor_destroy"
    /\ sc' = destroy_swapchain(sc)
    /\ destroyed' = destroyed \o
           <<"swapchain", "ubos", "descriptors", "sync", "cmdpools", "device">>
    /\ main_pc' = "exited"
    /\ UNCHANGED <<unit_vars, render_vars, running, main_touched>>

----------------------------------------------------------------------------
(* vma_buffer and vma_image: construction, copy, move and destroy of two    *)
(* instances of one of the two types over the allocator's allocations.      *)
(* A handle field holds 0 (VK_NULL_HANDLE) or the number of the allocation  *)
(* it belongs to; vma_buffer has no view.                                   *)

MaxAllocs == 2

MaxLog == 2

MaxFrees == 2

Slots == {"a", "b"}

Kinds == {"vma_buffer", "vma_image"}

(* VK_SUCCESS, VK_ERROR_OUT_OF_HOST_MEMORY, VK_ERROR_OUT_OF_DEVICE_MEMORY   *)
VkResults == {0, -1, -2}

(* constexpr vma_buffer() / vma_image() noexcept = default                  *)
DefaultWrap(k) ==
    [kind |-> k, handle |-> 0, view |-> 0, memory |-> 0, allocation |-> 0]

(* Mutant: a failed vmaCreateBuffer leaves its allocation in the member.    *)
vma_buffer_ctor_partial(res, id) ==
    IF res < 0
    THEN [DefaultWrap("vma_buffer") EXCEPT !.allocation = id]
    ELSE [DefaultWrap("vma_buffer") EXCEPT
             !.handle = id, !.memory = id, !.allocation = id]

(* vma_buffer::vma_buffer: vmaCreateBuffer returning res for allocation id; *)
(* on res < VK_SUCCESS the constructor logs and returns.                    *)
vma_buffer_ctor(res, id) ==
    IF res < 0
    THEN DefaultWrap("vma_buffer")
    ELSE [DefaultWrap("vma_buffer") EXCEPT
             !.handle = id, !.memory = id, !.allocation = id]

(* vma_image::vma_image: the same with vmaCreateImage, then the view.       *)
vma_image_ctor(res, id) ==
    IF res < 0
    THEN DefaultWrap("vma_image")
    ELSE [DefaultWrap("vma_image") EXCEPT
             !.handle = id, !.memory = id, !.allocation = id, !.view = id]

(* vma_image::operator!                                                     *)
operator_not(w) ==
    w.handle = 0 /\ w.view = 0 /\ w.memory = 0 /\ w.allocation = 0

(* Copy construction / assignment from `other`: the handles are duplicated  *)
(* (vma_image's user-written copiers, vma_buffer's implicit ones).          *)
wrap_copy(other) == other

(* Move construction / assignment from `other`, as <<target, source after>>: *)
(* vma_image's movers null the source; vma_buffer declares none, so its     *)
(* implicit move copies each member and leaves the source as it was.        *)
wrap_move(other) ==
    IF other.kind = "vma_image"
    THEN <<other, DefaultWrap("vma_image")>>
    ELSE <<other, other>>

(* destroy(ctxt): the allocations vmaDestroyBuffer / vmaDestroyImage free.  *)
(* The allocator ignores a null allocation; neither destroy tests or        *)
(* clears the members.                                                      *)
wrap_destroy(w) == IF w.allocation # 0 THEN {w.allocation} ELSE {}

h_construct ==
    /\ \E s \in Slots, res \in VkResults :
          LET id == Len(freed) + 1
              k == wrap[s].kind
          IN  /\ res >= 0 => Len(freed) < MaxAllocs
              /\ res < 0 => Len(errlog) < MaxLog
              /\ wrap' = [wrap EXCEPT ![s] =
                             IF k = "vma_buffer" THEN vma_buffer_ctor(res, id)
                             ELSE vma_image_ctor(res, id)]
              /\ freed' = IF res < 0 THEN freed ELSE Append(freed, 0)
              /\ errlog' = IF res < 0 THEN Append(errlog, res) ELSE errlog
              /\ last_op' = [op |-> "ctor", dst |-> s, src |-> s, res |-> res]
    /\ UNCHANGED <<render_vars, running, sc, main_vars, lc, sel, lib_vars>>

h_copy ==
    /\ \E d \in Slots, s \in Slots :
          /\ d # s
          /\ wrap' = [wrap EXCEPT ![d] = wrap_copy(wrap[s])]
          /\ last_op' = [op |-> "copy", dst |-> d, src |-> s, res |-> 0]
    /\ UNCHANGED <<render_vars, running, sc, main_vars, lib_vars, lc, sel, freed,
                   errlog>>

h_move ==
    /\ \E d \in Slots, s \in Slots :
          /\ d # s
          /\ wrap' = [wrap EXCEPT ![d] = wrap_move(wrap[s])[1],
                                  ![s] = wrap_move(wrap[s])[2]]
          /\ last_op' = [op |-> "move", dst |-> d, src |-> s, res |-> 0]
    /\ UNCHANGED <<render_vars, running, sc, main_vars, lib_vars, lc, sel, freed,
                   errlog>>

h_destroy ==
    /\ \E s \in Slots :
          /\ \A i \in wrap_destroy(wrap[s]) : freed[i] < MaxFrees
          /\ freed' = [i \in 1 .. Len(freed) |->
                          IF i \in wrap_destroy(wrap[s]) THEN freed[i] + 1
                          ELSE freed[i]]
          /\ last_op' = [op |-> "destroy", dst |-> s, src |-> s, res |-> 0]
    /\ UNCHANGED <<render_vars, running, sc, main_vars, lib_vars, lc, sel, wrap,
                   errlog>>

NoOp == [op |-> "none", dst |-> "a", src |-> "a", res |-> 0]

HandlesIdle ==
    /\ wrap = [s \in Slots |-> DefaultWrap("vma_buffer")]
    /\ freed = <<>>
    /\ errlog = <<>>
    /\ last_op = NoOp

HandlesInit ==
    /\ \E k \in Kinds : wrap = [s \in Slots |-> DefaultWrap(k)]
    /\ freed = <<>>
    /\ errlog = <<>>
    /\ last_op = NoOp

HandlesNext == h_construct \/ h_copy \/ h_move \/ h_destroy

----------------------------------------------------------------------------
(* context::record_image_layout_change for one (from, to) pair.  The        *)
(* unsupported branch is assert(false): it aborts where assertions are      *)
(* compiled in and does nothing in the Release build (NDEBUG), whose        *)
(* src / dst access masks are then the default-constructed empty flags.     *)

Layouts ==
    {"eUndefined", "ePreinitialized", "eTransferSrcOptimal",
     "eTransferDstOptimal", "eDepthStencilAttachmentOptimal",
     "eShaderReadOnlyOptimal", "eGeneral", "eColorAttachmentOptimal"}

DepthAccess ==
    {"eDepthStencilAttachmentRead", "eDepthStencilAttachmentWrite"}

(* The if / else-if chain: <<matched, src, dst>>.                           *)
LayoutAccess(from, to) ==
    IF from = "ePreinitialized" /\ to = "eTransferSrcOptimal"
    THEN <<TRUE, {"eHostWrite"}, {"eTransferRead"}>>
    ELSE IF from = "ePreinitialized" /\ to = "eTransferDstOptimal"
    THEN <<TRUE, {"eHostWrite"}, {"eTransferWrite"}>>
    ELSE IF from = "eUndefined" /\ to = "eDepthStencilAttachmentOptimal"
    THEN <<TRUE, {}, DepthAccess>>
    ELSE IF from = "eUndefined" /\ to = "eShaderReadOnlyOptimal"
    THEN <<TRUE, {}, {"eShaderRead"}>>
    ELSE IF from = "eDepthStencilAttachmentOptimal"
            /\ to = "eShaderReadOnlyOptimal"
    THEN <<TRUE, DepthAccess, {"eShaderRead"}>>
    ELSE IF from = "eShaderReadOnlyOptimal"
            /\ to = "eDepthStencilAttachmentOptimal"
    THEN <<TRUE, {"eShaderRead"}, DepthAccess>>
    ELSE IF from = "eTransferDstOptimal" /\ to = "eShaderReadOnlyOptimal"
    THEN <<TRUE, {"eTransferWrite"}, {"eShaderRead"}>>
    ELSE <<FALSE, {}, {}>>

(* The whole function: what it leaves in the command buffer and whether     *)
(* the process was aborted.                                                 *)
record_image_layout_change(from, to, ndebug) ==
    LET acc == LayoutAccess(from, to)
        aspect == IF to = "eDepthStencilAttachmentOptimal"
                     \/ from = "eDepthStencilAttachmentOptimal"
                  THEN "eDepth" ELSE "eColor"
    IN  IF ~acc[1] /\ ~ndebug
        THEN [aborted |-> TRUE, barriers |-> <<>>]
        ELSE [aborted |-> FALSE,
              barriers |-> <<[src |-> acc[2], dst |-> acc[3], from |-> from,
                              to |-> to, aspect |-> aspect]>>]

lc_call ==
    /\ ~lc.called
    /\ lc' = [lc EXCEPT !.called = TRUE,
                        !.out = record_image_layout_change(
                                    lc.from, lc.to, lc.ndebug)]
    /\ UNCHANGED <<render_vars, running, sc, main_vars, wrap, freed, errlog,
                   last_op, sel, lib_vars>>

NoCall == [aborted |-> FALSE, barriers |-> <<>>]

LayoutIdle ==
    lc = [from |-> "eUndefined", to |-> "eUndefined", ndebug |-> FALSE,
          called |-> FALSE, out |-> NoCall]

LayoutInit ==
    \E from \in Layouts, to \in Layouts, ndebug \in BOOLEAN :
       lc = [from |-> from, to |-> to, ndebug |-> ndebug, called |-> FALSE,
             out |-> NoCall]

----------------------------------------------------------------------------
(* context::ctor_select_gpu over the physical devices the instance          *)
(* enumerates.  A device is its list of queue families and whether it       *)
(* passes the feature, extension and surface checks; a family is its queue  *)
(* count, its graphics / compute / transfer flags and whether it can        *)
(* present to the surface.  Family indices count from 0 as in the code.     *)

MaxGpus == 2

MaxFamilies == 2

(* A value that is no family index.                                         *)
INVALID_QUEUE_FAMILY == 0 - 1

Family(count, gfx, comp, trans, pres) ==
    [queueCount |-> count, gfx |-> gfx, comp |-> comp, trans |-> trans,
     pres |-> pres]

Families ==
    {Family(2, TRUE, TRUE, FALSE, FALSE), Family(2, TRUE, TRUE, FALSE, TRUE),
     Family(1, TRUE, TRUE, FALSE, TRUE), Family(2, FALSE, FALSE, TRUE, TRUE),
     Family(2, FALSE, FALSE, TRUE, FALSE), Family(1, FALSE, FALSE, TRUE, FALSE),
     Family(1, FALSE, FALSE, FALSE, TRUE)}

SeqsUpTo(S, n) == UNION {[1 .. k -> S] : k \in 1 .. n}

Gpus == {[supported |-> s, qfam_props |-> f] :
            s \in BOOLEAN, f \in SeqsUpTo(Families, MaxFamilies)}

suitable_gfx_queue_family(props) ==
    props.queueCount >= 2 /\ props.gfx /\ props.comp

(* qfam_props[i] of line 1712, i being the index of the device: past the    *)
(* end of the device's families the read is out of bounds and yields `oob`. *)
SuitableAtGpuIndex(props, i, oob) ==
    IF i < Len(props) THEN suitable_gfx_queue_family(props[i + 1]) ELSE oob

(* The loop over the families j, j + 1, ... of device i, from the state     *)
(* st = <<qf_gfx, qf_pres, qf_trans>>.                                      *)
RECURSIVE ScanFamilies(_, _, _, _, _)
ScanFamilies(props, i, j, st, oob) ==
    IF j >= Len(props) THEN st
    ELSE IF props[j + 1].queueCount < 2
    THEN ScanFamilies(props, i, j + 1, st, oob)
    ELSE LET g == IF SuitableAtGpuIndex(props, i, oob)
                     /\ st[1] = INVALID_QUEUE_FAMILY
                  THEN j ELSE st[1]
             tr == IF props[j + 1].trans /\ j # g /\ j # st[2]
                   THEN j ELSE st[3]
             pr == IF props[j + 1].pres /\ st[2] = INVALID_QUEUE_FAMILY
                   THEN j ELSE st[2]
         IN  ScanFamilies(props, i, j + 1, <<g, pr, tr>>, oob)

(* The loop over the devices from index i: the index of the device          *)
(* returned, or INVALID_QUEUE_FAMILY for the runtime_error thrown when the  *)
(* loop ends.                                                               *)
RECURSIVE ctor_select_gpu(_, _, _)
ctor_select_gpu(gpus, i, oob) ==
    IF i >= Len(gpus) THEN INVALID_QUEUE_FAMILY
    ELSE IF ~gpus[i + 1].supported THEN ctor_select_gpu(gpus, i + 1, oob)
    ELSE LET none == INVALID_QUEUE_FAMILY
             st == ScanFamilies(gpus[i + 1].qfam_props, i, 0,
                                <<none, none, none>>, oob)
         IN  IF st[1] = none \/ st[2] = none \/ st[3] = none
             THEN ctor_select_gpu(gpus, i + 1, oob)
             ELSE i

sel_call ==
    /\ ~sel.called
    /\ \E oob \in BOOLEAN :
          sel' = [sel EXCEPT !.called = TRUE,
                             !.gpu = ctor_select_gpu(sel.gpus, 0, oob)]
    /\ UNCHANGED <<render_vars, running, sc, main_vars, wrap, freed, errlog,
                   last_op, lc, lib_vars>>

SelectIdle ==
    sel = [gpus |-> <<>>, called |-> FALSE, gpu |-> INVALID_QUEUE_FAMILY]

SelectInit ==
    \E gs \in SeqsUpTo(Gpus, MaxGpus) :
       sel = [gpus |-> gs, called |-> FALSE, gpu |-> INVALID_QUEUE_FAMILY]

----------------------------------------------------------------------------
(* Marching cubes (model.cpp).  A position is kept relative to cellpos in   *)
(* units of SHIFT, as the exact fraction num / den on each axis, so that    *)
(* the interpolation is computed and not assumed to land on the edge.       *)

(* MARCHING_CUBES_EDGES: for each inside/outside mask the 12-bit set of the  *)
(* cell edges the surface crosses.                                          *)
MARCHING_CUBES_EDGES ==
    <<
     0, 265, 515, 778, 1030, 1295, 1541, 1804, 2060, 2309, 2575, 2822, 3082,
     3331, 3593, 3840, 400, 153, 915, 666, 1430, 1183, 1941, 1692, 2460,
     2197, 2975, 2710, 3482, 3219, 3993, 3728, 560, 825, 51, 314, 1590,
     1855, 1077, 1340, 2620, 2869, 2111, 2358, 3642, 3891, 3129, 3376, 928,
     681, 419, 170, 1958, 1711, 1445, 1196, 2988, 2725, 2479, 2214, 4010,
     3747, 3497, 3232, 1120, 1385, 1635, 1898, 102, 367, 613, 876, 3180,
     3429, 3695, 3942, 2154, 2403, 2665, 2912, 1520, 1273, 2035, 1786, 502,
     255, 1013, 764, 3580, 3317, 4095, 3830, 2554, 2291, 3065, 2800, 1616,
     1881, 1107, 1370, 598, 863, 85, 348, 3676, 3925, 3167, 3414, 2650,
     2899, 2137, 2384, 1984, 1737, 1475, 1226, 966, 719, 453, 204, 4044,
     3781, 3535, 3270, 3018, 2755, 2505, 2240, 2240, 2505, 2755, 3018, 3270,
     3535, 3781, 4044, 204, 453, 719, 966, 1226, 1475, 1737, 1984, 2384,
     2137, 2899, 2650, 3414, 3167, 3925, 3676, 348, 85, 863, 598, 1370,
     1107, 1881, 1616, 2800, 3065, 2291, 2554, 3830, 4095, 3317, 3580, 764,
     1013, 255, 502, 1786, 2035, 1273, 1520, 2912, 2665, 2403, 2154, 3942,
     3695, 3429, 3180, 876, 613, 367, 102, 1898, 1635, 1385, 1120, 3232,
     3497, 3747, 4010, 2214, 2479, 2725, 2988, 1196, 1445, 1711, 1958, 170,
     419, 681, 928, 3376, 3129, 3891, 3642, 2358, 2111, 2869, 2620, 1340,
     1077, 1855, 1590, 314, 51, 825, 560, 3728, 3993, 3219, 3482, 2710,
     2975, 2197, 2460, 1692, 1941, 1183, 1430, 666, 915, 153, 400, 3840,
     3593, 3331, 3082, 2822, 2575, 2309, 2060, 1804, 1541, 1295, 1030, 778,
     515, 265, 0
    >>

(* MARCHING_CUBES_TRIS: for each mask the edges of its triangles, three per *)
(* triangle, closed by -1.                                                  *)
MARCHING_CUBES_TRIS ==
    <<
     <<-1, -1, -1, -1, -1, -1, -1, -1, -1, -1, -1, -1, -1, -1, -1, -1>>,
     <<0, 8, 3, -1, -1, -1, -1, -1, -1, -1, -1, -1, -1, -1, -1, -1>>,
     <<0, 1, 9, -1, -1, -1, -1, -1, -1, -1, -1, -1, -1, -1, -1, -1>>,
     <<1, 8, 3, 9, 8, 1, -1, -1, -1, -1, -1, -1, -1, -1, -1, -1>>,
     <<1, 2, 10, -1, -1, -1, -1, -1, -1, -1, -1, -1, -1, -1, -1, -1>>,
     <<0, 8, 3, 1, 2, 10, -1, -1, -1, -1, -1, -1, -1, -1, -1, -1>>,
     <<9, 2, 10, 0, 2, 9, -1, -1, -1, -1, -1, -1, -1, -1, -1, -1>>,
     <<2, 8, 3, 2, 10, 8, 10, 9, 8, -1, -1, -1, -1, -1, -1, -1>>,
     <<3, 11, 2, -1, -1, -1, -1, -1, -1, -1, -1, -1, -1, -1, -1, -1>>,
     <<0, 11, 2, 8, 11, 0, -1, -1, -1, -1, -1, -1, -1, -1, -1, -1>>,
     <<1, 9, 0, 2, 3, 11, -1, -1, -1, -1, -1, -1, -1, -1, -1, -1>>,
     <<1, 11, 2, 1, 9, 11, 9, 8, 11, -1, -1, -1, -1, -1, -1, -1>>,
     <<3, 10, 1, 11, 10, 3, -1, -1, -1, -1, -1, -1, -1, -1, -1, -1>>,
     <<0, 10, 1, 0, 8, 10, 8, 11, 10, -1, -1, -1, -1, -1, -1, -1>>,
     <<3, 9, 0, 3, 11, 9, 11, 10, 9, -1, -1, -1, -1, -1, -1, -1>>,
     <<9, 8, 10, 10, 8, 11, -1, -1, -1, -1, -1, -1, -1, -1, -1, -1>>,
     <<4, 7, 8, -1, -1, -1, -1, -1, -1, -1, -1, -1, -1, -1, -1, -1>>,
     <<4, 3, 0, 7, 3, 4, -1, -1, -1, -1, -1, -1, -1, -1, -1, -1>>,
     <<0, 1, 9, 8, 4, 7, -1, -1, -1, -1, -1, -1, -1, -1, -1, -1>>,
     <<4, 1, 9, 4, 7, 1, 7, 3, 1, -1, -1, -1, -1, -1, -1, -1>>,
     <<1, 2, 10, 8, 4, 7, -1, -1, -1, -1, -1, -1, -1, -1, -1, -1>>,
     <<3, 4, 7, 3, 0, 4, 1, 2, 10, -1, -1, -1, -1, -1, -1, -1>>,
     <<9, 2, 10, 9, 0, 2, 8, 4, 7, -1, -1, -1, -1, -1, -1, -1>>,
     <<2, 10, 9, 2, 9, 7, 2, 7, 3, 7, 9, 4, -1, -1, -1, -1>>,
     <<8, 4, 7, 3, 11, 2, -1, -1, -1, -1, -1, -1, -1, -1, -1, -1>>,
     <<11, 4, 7, 11, 2, 4, 2, 0, 4, -1, -1, -1, -1, -1, -1, -1>>,
     <<9, 0, 1, 8, 4, 7, 2, 3, 11, -1, -1, -1, -1, -1, -1, -1>>,
     <<4, 7, 11, 9, 4, 11, 9, 11, 2, 9, 2, 1, -1, -1, -1, -1>>,
     <<3, 10, 1, 3, 11, 10, 7, 8, 4, -1, -1, -1, -1, -1, -1, -1>>,
     <<1, 11, 10, 1, 4, 11, 1, 0, 4, 7, 11, 4, -1, -1, -1, -1>>,
     <<4, 7, 8, 9, 0, 11, 9, 11, 10, 11, 0, 3, -1, -1, -1, -1>>,
     <<4, 7, 11, 4, 11, 9, 9, 11, 10, -1, -1, -1, -1, -1, -1, -1>>,
     <<9, 5, 4, -1, -1, -1, -1, -1, -1, -1, -1, -1, -1, -1, -1, -1>>,
     <<9, 5, 4, 0, 8, 3, -1, -1, -1, -1, -1, -1, -1, -1, -1, -1>>,
     <<0, 5, 4, 1, 5, 0, -1, -1, -1, -1, -1, -1, -1, -1, -1, -1>>,
     <<8, 5, 4, 8, 3, 5, 3, 1, 5, -1, -1, -1, -1, -1, -1, -1>>,
     <<1, 2, 10, 9, 5, 4, -1, -1, -1, -1, -1, -1, -1, -1, -1, -1>>,
     <<3, 0, 8, 1, 2, 10, 4, 9, 5, -1, -1, -1, -1, -1, -1, -1>>,
     <<5, 2, 10, 5, 4, 2, 4, 0, 2, -1, -1, -1, -1, -1, -1, -1>>,
     <<2, 10, 5, 3, 2, 5, 3, 5, 4, 3, 4, 8, -1, -1, -1, -1>>,
     <<9, 5, 4, 2, 3, 11, -1, -1, -1, -1, -1, -1, -1, -1, -1, -1>>,
     <<0, 11, 2, 0, 8, 11, 4, 9, 5, -1, -1, -1, -1, -1, -1, -1>>,
     <<0, 5, 4, 0, 1, 5, 2, 3, 11, -1, -1, -1, -1, -1, -1, -1>>,
     <<2, 1, 5, 2, 5, 8, 2, 8, 11, 4, 8, 5, -1, -1, -1, -1>>,
     <<10, 3, 11, 10, 1, 3, 9, 5, 4, -1, -1, -1, -1, -1, -1, -1>>,
     <<4, 9, 5, 0, 8, 1, 8, 10, 1, 8, 11, 10, -1, -1, -1, -1>>,
     <<5, 4, 0, 5, 0, 11, 5, 11, 10, 11, 0, 3, -1, -1, -1, -1>>,
     <<5, 4, 8, 5, 8, 10, 10, 8, 11, -1, -1, -1, -1, -1, -1, -1>>,
     <<9, 7, 8, 5, 7, 9, -1, -1, -1, -1, -1, -1, -1, -1, -1, -1>>,
     <<9, 3, 0, 9, 5, 3, 5, 7, 3, -1, -1, -1, -1, -1, -1, -1>>,
     <<0, 7, 8, 0, 1, 7, 1, 5, 7, -1, -1, -1, -1, -1, -1, -1>>,
     <<1, 5, 3, 3, 5, 7, -1, -1, -1, -1, -1, -1, -1, -1, -1, -1>>,
     <<9, 7, 8, 9, 5, 7, 10, 1, 2, -1, -1, -1, -1, -1, -1, -1>>,
     <<10, 1, 2, 9, 5, 0, 5, 3, 0, 5, 7, 3, -1, -1, -1, -1>>,
     <<8, 0, 2, 8, 2, 5, 8, 5, 7, 10, 5, 2, -1, -1, -1, -1>>,
     <<2, 10, 5, 2, 5, 3, 3, 5, 7, -1, -1, -1, -1, -1, -1, -1>>,
     <<7, 9, 5, 7, 8, 9, 3, 11, 2, -1, -1, -1, -1, -1, -1, -1>>,
     <<9, 5, 7, 9, 7, 2, 9, 2, 0, 2, 7, 11, -1, -1, -1, -1>>,
     <<2, 3, 11, 0, 1, 8, 1, 7, 8, 1, 5, 7, -1, -1, -1, -1>>,
     <<11, 2, 1, 11, 1, 7, 7, 1, 5, -1, -1, -1, -1, -1, -1, -1>>,
     <<9, 5, 8, 8, 5, 7, 10, 1, 3, 10, 3, 11, -1, -1, -1, -1>>,
     <<5, 7, 0, 5, 0, 9, 7, 11, 0, 1, 0, 10, 11, 10, 0, -1>>,
     <<11, 10, 0, 11, 0, 3, 10, 5, 0, 8, 0, 7, 5, 7, 0, -1>>,
     <<11, 10, 5, 7, 11, 5, -1, -1, -1, -1, -1, -1, -1, -1, -1, -1>>,
     <<10, 6, 5, -1, -1, -1, -1, -1, -1, -1, -1, -1, -1, -1, -1, -1>>,
     <<0, 8, 3, 5, 10, 6, -1, -1, -1, -1, -1, -1, -1, -1, -1, -1>>,
     <<9, 0, 1, 5, 10, 6, -1, -1, -1, -1, -1, -1, -1, -1, -1, -1>>,
     <<1, 8, 3, 1, 9, 8, 5, 10, 6, -1, -1, -1, -1, -1, -1, -1>>,
     <<1, 6, 5, 2, 6, 1, -1, -1, -1, -1, -1, -1, -1, -1, -1, -1>>,
     <<1, 6, 5, 1, 2, 6, 3, 0, 8, -1, -1, -1, -1, -1, -1, -1>>,
     <<9, 6, 5, 9, 0, 6, 0, 2, 6, -1, -1, -1, -1, -1, -1, -1>>,
     <<5, 9, 8, 5, 8, 2, 5, 2, 6, 3, 2, 8, -1, -1, -1, -1>>,
     <<2, 3, 11, 10, 6, 5, -1, -1, -1, -1, -1, -1, -1, -1, -1, -1>>,
     <<11, 0, 8, 11, 2, 0, 10, 6, 5, -1, -1, -1, -1, -1, -1, -1>>,
     <<0, 1, 9, 2, 3, 11, 5, 10, 6, -1, -1, -1, -1, -1, -1, -1>>,
     <<5, 10, 6, 1, 9, 2, 9, 11, 2, 9, 8, 11, -1, -1, -1, -1>>,
     <<6, 3, 11, 6, 5, 3, 5, 1, 3, -1, -1, -1, -1, -1, -1, -1>>,
     <<0, 8, 11, 0, 11, 5, 0, 5, 1, 5, 11, 6, -1, -1, -1, -1>>,
     <<3, 11, 6, 0, 3, 6, 0, 6, 5, 0, 5, 9, -1, -1, -1, -1>>,
     <<6, 5, 9, 6, 9, 11, 11, 9, 8, -1, -1, -1, -1, -1, -1, -1>>,
     <<5, 10, 6, 4, 7, 8, -1, -1, -1, -1, -1, -1, -1, -1, -1, -1>>,
     <<4, 3, 0, 4, 7, 3, 6, 5, 10, -1, -1, -1, -1, -1, -1, -1>>,
     <<1, 9, 0, 5, 10, 6, 8, 4, 7, -1, -1, -1, -1, -1, -1, -1>>,
     <<10, 6, 5, 1, 9, 7, 1, 7, 3, 7, 9, 4, -1, -1, -1, -1>>,
     <<6, 1, 2, 6, 5, 1, 4, 7, 8, -1, -1, -1, -1, -1, -1, -1>>,
     <<1, 2, 5, 5, 2, 6, 3, 0, 4, 3, 4, 7, -1, -1, -1, -1>>,
     <<8, 4, 7, 9, 0, 5, 0, 6, 5, 0, 2, 6, -1, -1, -1, -1>>,
     <<7, 3, 9, 7, 9, 4, 3, 2, 9, 5, 9, 6, 2, 6, 9, -1>>,
     <<3, 11, 2, 7, 8, 4, 10, 6, 5, -1, -1, -1, -1, -1, -1, -1>>,
     <<5, 10, 6, 4, 7, 2, 4, 2, 0, 2, 7, 11, -1, -1, -1, -1>>,
     <<0, 1, 9, 4, 7, 8, 2, 3, 11, 5, 10, 6, -1, -1, -1, -1>>,
     <<9, 2, 1, 9, 11, 2, 9, 4, 11, 7, 11, 4, 5, 10, 6, -1>>,
     <<8, 4, 7, 3, 11, 5, 3, 5, 1, 5, 11, 6, -1, -1, -1, -1>>,
     <<5, 1, 11, 5, 11, 6, 1, 0, 11, 7, 11, 4, 0, 4, 11, -1>>,
     <<0, 5, 9, 0, 6, 5, 0, 3, 6, 11, 6, 3, 8, 4, 7, -1>>,
     <<6, 5, 9, 6, 9, 11, 4, 7, 9, 7, 11, 9, -1, -1, -1, -1>>,
     <<10, 4, 9, 6, 4, 10, -1, -1, -1, -1, -1, -1, -1, -1, -1, -1>>,
     <<4, 10, 6, 4, 9, 10, 0, 8, 3, -1, -1, -1, -1, -1, -1, -1>>,
     <<10, 0, 1, 10, 6, 0, 6, 4, 0, -1, -1, -1, -1, -1, -1, -1>>,
     <<8, 3, 1, 8, 1, 6, 8, 6, 4, 6, 1, 10, -1, -1, -1, -1>>,
     <<1, 4, 9, 1, 2, 4, 2, 6, 4, -1, -1, -1, -1, -1, -1, -1>>,
     <<3, 0, 8, 1, 2, 9, 2, 4, 9, 2, 6, 4, -1, -1, -1, -1>>,
     <<0, 2, 4, 4, 2, 6, -1, -1, -1, -1, -1, -1, -1, -1, -1, -1>>,
     <<8, 3, 2, 8, 2, 4, 4, 2, 6, -1, -1, -1, -1, -1, -1, -1>>,
     <<10, 4, 9, 10, 6, 4, 11, 2, 3, -1, -1, -1, -1, -1, -1, -1>>,
     <<0, 8, 2, 2, 8, 11, 4, 9, 10, 4, 10, 6, -1, -1, -1, -1>>,
     <<3, 11, 2, 0, 1, 6, 0, 6, 4, 6, 1, 10, -1, -1, -1, -1>>,
     <<6, 4, 1, 6, 1, 10, 4, 8, 1, 2, 1, 11, 8, 11, 1, -1>>,
     <<9, 6, 4, 9, 3, 6, 9, 1, 3, 11, 6, 3, -1, -1, -1, -1>>,
     <<8, 11, 1, 8, 1, 0, 11, 6, 1, 9, 1, 4, 6, 4, 1, -1>>,
     <<3, 11, 6, 3, 6, 0, 0, 6, 4, -1, -1, -1, -1, -1, -1, -1>>,
     <<6, 4, 8, 11, 6, 8, -1, -1, -1, -1, -1, -1, -1, -1, -1, -1>>,
     <<7, 10, 6, 7, 8, 10, 8, 9, 10, -1, -1, -1, -1, -1, -1, -1>>,
     <<0, 7, 3, 0, 10, 7, 0, 9, 10, 6, 7, 10, -1, -1, -1, -1>>,
     <<10, 6, 7, 1, 10, 7, 1, 7, 8, 1, 8, 0, -1, -1, -1, -1>>,
     <<10, 6, 7, 10, 7, 1, 1, 7, 3, -1, -1, -1, -1, -1, -1, -1>>,
     <<1, 2, 6, 1, 6, 8, 1, 8, 9, 8, 6, 7, -1, -1, -1, -1>>,
     <<2, 6, 9, 2, 9, 1, 6, 7, 9, 0, 9, 3, 7, 3, 9, -1>>,
     <<7, 8, 0, 7, 0, 6, 6, 0, 2, -1, -1, -1, -1, -1, -1, -1>>,
     <<7, 3, 2, 6, 7, 2, -1, -1, -1, -1, -1, -1, -1, -1, -1, -1>>,
     <<2, 3, 11, 10, 6, 8, 10, 8, 9, 8, 6, 7, -1, -1, -1, -1>>,
     <<2, 0, 7, 2, 7, 11, 0, 9, 7, 6, 7, 10, 9, 10, 7, -1>>,
     <<1, 8, 0, 1, 7, 8, 1, 10, 7, 6, 7, 10, 2, 3, 11, -1>>,
     <<11, 2, 1, 11, 1, 7, 10, 6, 1, 6, 7, 1, -1, -1, -1, -1>>,
     <<8, 9, 6, 8, 6, 7, 9, 1, 6, 11, 6, 3, 1, 3, 6, -1>>,
     <<0, 9, 1, 11, 6, 7, -1, -1, -1, -1, -1, -1, -1, -1, -1, -1>>,
     <<7, 8, 0, 7, 0, 6, 3, 11, 0, 11, 6, 0, -1, -1, -1, -1>>,
     <<7, 11, 6, -1, -1, -1, -1, -1, -1, -1, -1, -1, -1, -1, -1, -1>>,
     <<7, 6, 11, -1, -1, -1, -1, -1, -1, -1, -1, -1, -1, -1, -1, -1>>,
     <<3, 0, 8, 11, 7, 6, -1, -1, -1, -1, -1, -1, -1, -1, -1, -1>>,
     <<0, 1, 9, 11, 7, 6, -1, -1, -1, -1, -1, -1, -1, -1, -1, -1>>,
     <<8, 1, 9, 8, 3, 1, 11, 7, 6, -1, -1, -1, -1, -1, -1, -1>>,
     <<10, 1, 2, 6, 11, 7, -1, -1, -1, -1, -1, -1, -1, -1, -1, -1>>,
     <<1, 2, 10, 3, 0, 8, 6, 11, 7, -1, -1, -1, -1, -1, -1, -1>>,
     <<2, 9, 0, 2, 10, 9, 6, 11, 7, -1, -1, -1, -1, -1, -1, -1>>,
     <<6, 11, 7, 2, 10, 3, 10, 8, 3, 10, 9, 8, -1, -1, -1, -1>>,
     <<7, 2, 3, 6, 2, 7, -1, -1, -1, -1, -1, -1, -1, -1, -1, -1>>,
     <<7, 0, 8, 7, 6, 0, 6, 2, 0, -1, -1, -1, -1, -1, -1, -1>>,
     <<2, 7, 6, 2, 3, 7, 0, 1, 9, -1, -1, -1, -1, -1, -1, -1>>,
     <<1, 6, 2, 1, 8, 6, 1, 9, 8, 8, 7, 6, -1, -1, -1, -1>>,
     <<10, 7, 6, 10, 1, 7, 1, 3, 7, -1, -1, -1, -1, -1, -1, -1>>,
     <<10, 7, 6, 1, 7, 10, 1, 8, 7, 1, 0, 8, -1, -1, -1, -1>>,
     <<0, 3, 7, 0, 7, 10, 0, 10, 9, 6, 10, 7, -1, -1, -1, -1>>,
     <<7, 6, 10, 7, 10, 8, 8, 10, 9, -1, -1, -1, -1, -1, -1, -1>>,
     <<6, 8, 4, 11, 8, 6, -1, -1, -1, -1, -1, -1, -1, -1, -1, -1>>,
     <<3, 6, 11, 3, 0, 6, 0, 4, 6, -1, -1, -1, -1, -1, -1, -1>>,
     <<8, 6, 11, 8, 4, 6, 9, 0, 1, -1, -1, -1, -1, -1, -1, -1>>,
     <<9, 4, 6, 9, 6, 3, 9, 3, 1, 11, 3, 6, -1, -1, -1, -1>>,
     <<6, 8, 4, 6, 11, 8, 2, 10, 1, -1, -1, -1, -1, -1, -1, -1>>,
     <<1, 2, 10, 3, 0, 11, 0, 6, 11, 0, 4, 6, -1, -1, -1, -1>>,
     <<4, 11, 8, 4, 6, 11, 0, 2, 9, 2, 10, 9, -1, -1, -1, -1>>,
     <<10, 9, 3, 10, 3, 2, 9, 4, 3, 11, 3, 6, 4, 6, 3, -1>>,
     <<8, 2, 3, 8, 4, 2, 4, 6, 2, -1, -1, -1, -1, -1, -1, -1>>,
     <<0, 4, 2, 4, 6, 2, -1, -1, -1, -1, -1, -1, -1, -1, -1, -1>>,
     <<1, 9, 0, 2, 3, 4, 2, 4, 6, 4, 3, 8, -1, -1, -1, -1>>,
     <<1, 9, 4, 1, 4, 2, 2, 4, 6, -1, -1, -1, -1, -1, -1, -1>>,
     <<8, 1, 3, 8, 6, 1, 8, 4, 6, 6, 10, 1, -1, -1, -1, -1>>,
     <<10, 1, 0, 10, 0, 6, 6, 0, 4, -1, -1, -1, -1, -1, -1, -1>>,
     <<4, 6, 3, 4, 3, 8, 6, 10, 3, 0, 3, 9, 10, 9, 3, -1>>,
     <<10, 9, 4, 6, 10, 4, -1, -1, -1, -1, -1, -1, -1, -1, -1, -1>>,
     <<4, 9, 5, 7, 6, 11, -1, -1, -1, -1, -1, -1, -1, -1, -1, -1>>,
     <<0, 8, 3, 4, 9, 5, 11, 7, 6, -1, -1, -1, -1, -1, -1, -1>>,
     <<5, 0, 1, 5, 4, 0, 7, 6, 11, -1, -1, -1, -1, -1, -1, -1>>,
     <<11, 7, 6, 8, 3, 4, 3, 5, 4, 3, 1, 5, -1, -1, -1, -1>>,
     <<9, 5, 4, 10, 1, 2, 7, 6, 11, -1, -1, -1, -1, -1, -1, -1>>,
     <<6, 11, 7, 1, 2, 10, 0, 8, 3, 4, 9, 5, -1, -1, -1, -1>>,
     <<7, 6, 11, 5, 4, 10, 4, 2, 10, 4, 0, 2, -1, -1, -1, -1>>,
     <<3, 4, 8, 3, 5, 4, 3, 2, 5, 10, 5, 2, 11, 7, 6, -1>>,
     <<7, 2, 3, 7, 6, 2, 5, 4, 9, -1, -1, -1, -1, -1, -1, -1>>,
     <<9, 5, 4, 0, 8, 6, 0, 6, 2, 6, 8, 7, -1, -1, -1, -1>>,
     <<3, 6, 2, 3, 7, 6, 1, 5, 0, 5, 4, 0, -1, -1, -1, -1>>,
     <<6, 2, 8, 6, 8, 7, 2, 1, 8, 4, 8, 5, 1, 5, 8, -1>>,
     <<9, 5, 4, 10, 1, 6, 1, 7, 6, 1, 3, 7, -1, -1, -1, -1>>,
     <<1, 6, 10, 1, 7, 6, 1, 0, 7, 8, 7, 0, 9, 5, 4, -1>>,
     <<4, 0, 10, 4, 10, 5, 0, 3, 10, 6, 10, 7, 3, 7, 10, -1>>,
     <<7, 6, 10, 7, 10, 8, 5, 4, 10, 4, 8, 10, -1, -1, -1, -1>>,
     <<6, 9, 5, 6, 11, 9, 11, 8, 9, -1, -1, -1, -1, -1, -1, -1>>,
     <<3, 6, 11, 0, 6, 3, 0, 5, 6, 0, 9, 5, -1, -1, -1, -1>>,
     <<0, 11, 8, 0, 5, 11, 0, 1, 5, 5, 6, 11, -1, -1, -1, -1>>,
     <<6, 11, 3, 6, 3, 5, 5, 3, 1, -1, -1, -1, -1, -1, -1, -1>>,
     <<1, 2, 10, 9, 5, 11, 9, 11, 8, 11, 5, 6, -1, -1, -1, -1>>,
     <<0, 11, 3, 0, 6, 11, 0, 9, 6, 5, 6, 9, 1, 2, 10, -1>>,
     <<11, 8, 5, 11, 5, 6, 8, 0, 5, 10, 5, 2, 0, 2, 5, -1>>,
     <<6, 11, 3, 6, 3, 5, 2, 10, 3, 10, 5, 3, -1, -1, -1, -1>>,
     <<5, 8, 9, 5, 2, 8, 5, 6, 2, 3, 8, 2, -1, -1, -1, -1>>,
     <<9, 5, 6, 9, 6, 0, 0, 6, 2, -1, -1, -1, -1, -1, -1, -1>>,
     <<1, 5, 8, 1, 8, 0, 5, 6, 8, 3, 8, 2, 6, 2, 8, -1>>,
     <<1, 5, 6, 2, 1, 6, -1, -1, -1, -1, -1, -1, -1, -1, -1, -1>>,
     <<1, 3, 6, 1, 6, 10, 3, 8, 6, 5, 6, 9, 8, 9, 6, -1>>,
     <<10, 1, 0, 10, 0, 6, 9, 5, 0, 5, 6, 0, -1, -1, -1, -1>>,
     <<0, 3, 8, 5, 6, 10, -1, -1, -1, -1, -1, -1, -1, -1, -1, -1>>,
     <<10, 5, 6, -1, -1, -1, -1, -1, -1, -1, -1, -1, -1, -1, -1, -1>>,
     <<11, 5, 10, 7, 5, 11, -1, -1, -1, -1, -1, -1, -1, -1, -1, -1>>,
     <<11, 5, 10, 11, 7, 5, 8, 3, 0, -1, -1, -1, -1, -1, -1, -1>>,
     <<5, 11, 7, 5, 10, 11, 1, 9, 0, -1, -1, -1, -1, -1, -1, -1>>,
     <<10, 7, 5, 10, 11, 7, 9, 8, 1, 8, 3, 1, -1, -1, -1, -1>>,
     <<11, 1, 2, 11, 7, 1, 7, 5, 1, -1, -1, -1, -1, -1, -1, -1>>,
     <<0, 8, 3, 1, 2, 7, 1, 7, 5, 7, 2, 11, -1, -1, -1, -1>>,
     <<9, 7, 5, 9, 2, 7, 9, 0, 2, 2, 11, 7, -1, -1, -1, -1>>,
     <<7, 5, 2, 7, 2, 11, 5, 9, 2, 3, 2, 8, 9, 8, 2, -1>>,
     <<2, 5, 10, 2, 3, 5, 3, 7, 5, -1, -1, -1, -1, -1, -1, -1>>,
     <<8, 2, 0, 8, 5, 2, 8, 7, 5, 10, 2, 5, -1, -1, -1, -1>>,
     <<9, 0, 1, 5, 10, 3, 5, 3, 7, 3, 10, 2, -1, -1, -1, -1>>,
     <<9, 8, 2, 9, 2, 1, 8, 7, 2, 10, 2, 5, 7, 5, 2, -1>>,
     <<1, 3, 5, 3, 7, 5, -1, -1, -1, -1, -1, -1, -1, -1, -1, -1>>,
     <<0, 8, 7, 0, 7, 1, 1, 7, 5, -1, -1, -1, -1, -1, -1, -1>>,
     <<9, 0, 3, 9, 3, 5, 5, 3, 7, -1, -1, -1, -1, -1, -1, -1>>,
     <<9, 8, 7, 5, 9, 7, -1, -1, -1, -1, -1, -1, -1, -1, -1, -1>>,
     <<5, 8, 4, 5, 10, 8, 10, 11, 8, -1, -1, -1, -1, -1, -1, -1>>,
     <<5, 0, 4, 5, 11, 0, 5, 10, 11, 11, 3, 0, -1, -1, -1, -1>>,
     <<0, 1, 9, 8, 4, 10, 8, 10, 11, 10, 4, 5, -1, -1, -1, -1>>,
     <<10, 11, 4, 10, 4, 5, 11, 3, 4, 9, 4, 1, 3, 1, 4, -1>>,
     <<2, 5, 1, 2, 8, 5, 2, 11, 8, 4, 5, 8, -1, -1, -1, -1>>,
     <<0, 4, 11, 0, 11, 3, 4, 5, 11, 2, 11, 1, 5, 1, 11, -1>>,
     <<0, 2, 5, 0, 5, 9, 2, 11, 5, 4, 5, 8, 11, 8, 5, -1>>,
     <<9, 4, 5, 2, 11, 3, -1, -1, -1, -1, -1, -1, -1, -1, -1, -1>>,
     <<2, 5, 10, 3, 5, 2, 3, 4, 5, 3, 8, 4, -1, -1, -1, -1>>,
     <<5, 10, 2, 5, 2, 4, 4, 2, 0, -1, -1, -1, -1, -1, -1, -1>>,
     <<3, 10, 2, 3, 5, 10, 3, 8, 5, 4, 5, 8, 0, 1, 9, -1>>,
     <<5, 10, 2, 5, 2, 4, 1, 9, 2, 9, 4, 2, -1, -1, -1, -1>>,
     <<8, 4, 5, 8, 5, 3, 3, 5, 1, -1, -1, -1, -1, -1, -1, -1>>,
     <<0, 4, 5, 1, 0, 5, -1, -1, -1, -1, -1, -1, -1, -1, -1, -1>>,
     <<8, 4, 5, 8, 5, 3, 9, 0, 5, 0, 3, 5, -1, -1, -1, -1>>,
     <<9, 4, 5, -1, -1, -1, -1, -1, -1, -1, -1, -1, -1, -1, -1, -1>>,
     <<4, 11, 7, 4, 9, 11, 9, 10, 11, -1, -1, -1, -1, -1, -1, -1>>,
     <<0, 8, 3, 4, 9, 7, 9, 11, 7, 9, 10, 11, -1, -1, -1, -1>>,
     <<1, 10, 11, 1, 11, 4, 1, 4, 0, 7, 4, 11, -1, -1, -1, -1>>,
     <<3, 1, 4, 3, 4, 8, 1, 10, 4, 7, 4, 11, 10, 11, 4, -1>>,
     <<4, 11, 7, 9, 11, 4, 9, 2, 11, 9, 1, 2, -1, -1, -1, -1>>,
     <<9, 7, 4, 9, 11, 7, 9, 1, 11, 2, 11, 1, 0, 8, 3, -1>>,
     <<11, 7, 4, 11, 4, 2, 2, 4, 0, -1, -1, -1, -1, -1, -1, -1>>,
     <<11, 7, 4, 11, 4, 2, 8, 3, 4, 3, 2, 4, -1, -1, -1, -1>>,
     <<2, 9, 10, 2, 7, 9, 2, 3, 7, 7, 4, 9, -1, -1, -1, -1>>,
     <<9, 10, 7, 9, 7, 4, 10, 2, 7, 8, 7, 0, 2, 0, 7, -1>>,
     <<3, 7, 10, 3, 10, 2, 7, 4, 10, 1, 10, 0, 4, 0, 10, -1>>,
     <<1, 10, 2, 8, 7, 4, -1, -1, -1, -1, -1, -1, -1, -1, -1, -1>>,
     <<4, 9, 1, 4, 1, 7, 7, 1, 3, -1, -1, -1, -1, -1, -1, -1>>,
     <<4, 9, 1, 4, 1, 7, 0, 8, 1, 8, 7, 1, -1, -1, -1, -1>>,
     <<4, 0, 3, 7, 4, 3, -1, -1, -1, -1, -1, -1, -1, -1, -1, -1>>,
     <<4, 8, 7, -1, -1, -1, -1, -1, -1, -1, -1, -1, -1, -1, -1, -1>>,
     <<9, 10, 8, 10, 11, 8, -1, -1, -1, -1, -1, -1, -1, -1, -1, -1>>,
     <<3, 0, 9, 3, 9, 11, 11, 9, 10, -1, -1, -1, -1, -1, -1, -1>>,
     <<0, 1, 10, 0, 10, 8, 8, 10, 11, -1, -1, -1, -1, -1, -1, -1>>,
     <<3, 1, 10, 11, 3, 10, -1, -1, -1, -1, -1, -1, -1, -1, -1, -1>>,
     <<1, 2, 11, 1, 11, 9, 9, 11, 8, -1, -1, -1, -1, -1, -1, -1>>,
     <<3, 0, 9, 3, 9, 11, 1, 2, 9, 2, 11, 9, -1, -1, -1, -1>>,
     <<0, 2, 11, 8, 0, 11, -1, -1, -1, -1, -1, -1, -1, -1, -1, -1>>,
     <<3, 2, 11, -1, -1, -1, -1, -1, -1, -1, -1, -1, -1, -1, -1, -1>>,
     <<2, 3, 8, 2, 8, 10, 10, 8, 9, -1, -1, -1, -1, -1, -1, -1>>,
     <<9, 10, 2, 0, 9, 2, -1, -1, -1, -1, -1, -1, -1, -1, -1, -1>>,
     <<2, 3, 8, 2, 8, 10, 0, 1, 8, 1, 10, 8, -1, -1, -1, -1>>,
     <<1, 10, 2, -1, -1, -1, -1, -1, -1, -1, -1, -1, -1, -1, -1, -1>>,
     <<1, 3, 8, 9, 1, 8, -1, -1, -1, -1, -1, -1, -1, -1, -1, -1>>,
     <<0, 9, 1, -1, -1, -1, -1, -1, -1, -1, -1, -1, -1, -1, -1, -1>>,
     <<0, 3, 8, -1, -1, -1, -1, -1, -1, -1, -1, -1, -1, -1, -1, -1>>,
     <<-1, -1, -1, -1, -1, -1, -1, -1, -1, -1, -1, -1, -1, -1, -1, -1>>
    >>

(* The values a corner of the cell may hold.                                *)
CellValues == {0 - 2, 1, 3}

(* The positions polygonise gives the ends of edge e and the corners whose  *)
(* values it passes with them: <<p1, p2, index of val1, index of val2>>,    *)
(* in the order of the twelve vert_interp calls.                            *)
EdgeEnds ==
    <<<<<<0, 0, 0>>, <<1, 0, 0>>, 0, 1>>,
      <<<<1, 0, 0>>, <<1, 1, 0>>, 1, 2>>,
      <<<<1, 1, 0>>, <<0, 1, 0>>, 2, 3>>,
      <<<<0, 1, 0>>, <<0, 0, 0>>, 3, 0>>,
      <<<<0, 0, 1>>, <<1, 0, 1>>, 4, 5>>,
      <<<<1, 0, 1>>, <<1, 1, 1>>, 5, 6>>,
      <<<<1, 1, 1>>, <<0, 1, 1>>, 6, 7>>,
      <<<<0, 1, 1>>, <<0, 0, 1>>, 7, 4>>,
      <<<<0, 0, 0>>, <<0, 0, 1>>, 0, 4>>,
      <<<<1, 0, 0>>, <<1, 0, 1>>, 1, 5>>,
      <<<<1, 1, 0>>, <<1, 1, 1>>, 2, 6>>,
      <<<<0, 1, 0>>, <<0, 1, 1>>, 3, 7>>>>

(* Mutant: the interpolation divides by val2 + val1.                        *)
vert_interp_sum(p1, p2, val1, val2) ==
    [num |-> [k \in 1 .. 3 |->
                 p1[k] * (val2 + val1) + (0 - val1) * (p2[k] - p1[k])],
     den |-> val2 + val1]

(* vert_interp: p1 + (-val1 / (val2 - val1)) * (p2 - p1)                    *)
vert_interp(p1, p2, val1, val2) ==
    [num |-> [k \in 1 .. 3 |->
                 p1[k] * (val2 - val1) + (0 - val1) * (p2[k] - p1[k])],
     den |-> val2 - val1]

RECURSIVE MaskBits(_, _)
(* for (i = 0; i < n; i++) if (cell[i] < 0.0f) ndx |= (1 << i);             *)
MaskBits(cell, n) ==
    IF n = 0 THEN 0
    ELSE MaskBits(cell, n - 1) + (IF cell[n] < 0 THEN 2 ^ (n - 1) ELSE 0)

(* Mutant: the loop stops one corner short.                                 *)
ndx_short(cell) == MaskBits(cell, Len(cell) - 1)

ndx(cell) == MaskBits(cell, Len(cell))

RECURSIVE LocalRemap(_, _, _)
(* The first loop over cube_tri: the edges in the order of their first      *)
(* appearance, up to the closing -1.                                        *)
LocalRemap(cube_tri, i, order) ==
    IF cube_tri[i + 1] = 0 - 1 THEN order
    ELSE LocalRemap(cube_tri, i + 1,
                    IF cube_tri[i + 1] \in Range(order) THEN order
                    ELSE Append(order, cube_tri[i + 1]))

(* local_remap[e]                                                            *)
RemapOf(order, e) == (CHOOSE k \in 1 .. Len(order) : order[k] = e) - 1

RECURSIVE CubeTris(_, _, _)
(* The last loop over cube_tri, three entries at a time.                    *)
CubeTris(cube_tri, i, order) ==
    IF cube_tri[i + 1] = 0 - 1 THEN <<>>
    ELSE <<<<RemapOf(order, cube_tri[i + 1]), RemapOf(order, cube_tri[i + 2]),
             RemapOf(order, cube_tri[i + 3])>>>>
         \o CubeTris(cube_tri, i + 3, order)

(* polygonise(cell, cellpos): its vertices and triangles; an edge is active *)
(* when MARCHING_CUBES_EDGES[ndx] & (1 << e), and verts[12] starts zeroed.  *)
polygonise(cell) ==
    LET n == ndx(cell)
        verts == [e \in 1 .. 12 |->
                     IF (MARCHING_CUBES_EDGES[n + 1] \div (2 ^ (e - 1))) % 2 = 1
                     THEN vert_interp(EdgeEnds[e][1], EdgeEnds[e][2],
                                      cell[EdgeEnds[e][3] + 1],
                                      cell[EdgeEnds[e][4] + 1])
                     ELSE [num |-> <<0, 0, 0>>, den |-> 1]]
        cube_tri == MARCHING_CUBES_TRIS[n + 1]
        order == LocalRemap(cube_tri, 0, <<>>)
    IN  IF MARCHING_CUBES_EDGES[n + 1] = 0
        THEN [verts |-> <<>>, tris |-> <<>>]
        ELSE [verts |-> [k \in 1 .. Len(order) |-> verts[order[k] + 1]],
              tris |-> CubeTris(cube_tri, 0, order)]

(* The state before polygonise is called on `cell`.                         *)
CubeCell(cell) ==
    [cell |-> cell, called |-> FALSE, out |-> [verts |-> <<>>, tris |-> <<>>]]

mc_call ==
    /\ ~mc.called
    /\ mc' = [mc EXCEPT !.called = TRUE, !.out = polygonise(mc.cell)]
    /\ UNCHANGED <<context_vars, hm, con, aud>>

----------------------------------------------------------------------------
(* model::from_heightmap (model.cpp), for a grid of N x N heights; the      *)
(* repository's heightmap has N = WIDTH.  The vertex loop and the index     *)
(* loop run one iteration of their inner loop per step.                     *)

WIDTH == 32

MaxWidth == 4

Widths == (1 .. MaxWidth) \cup {WIDTH}

(* Mutant: the row stride is taken one too large.                           *)
quad_indices_wide(vi, WM1) ==
    <<vi, vi + WM1 + 2, vi + 1, vi + 1, vi + WM1 + 2, vi + WM1 + 3>>

(* indices[ti .. ti + 5] as the body of the index loop assigns them.        *)
quad_indices(vi, WM1) ==
    <<vi, vi + WM1 + 1, vi + 1, vi + 1, vi + WM1 + 1, vi + WM1 + 2>>

HeightmapStart(n) ==
    [N |-> n, pc |-> "verts", y |-> 0, x |-> 0, nverts |-> 0,
     indices |-> <<>>, ti |-> 0, vi |-> 0, z |-> 0]

(* verts.push_back(...) in for (y < WIDTH) for (x < WIDTH)                  *)
hm_push_vertex ==
    /\ hm.pc = "verts"
    /\ hm.y < hm.N /\ hm.x < hm.N
    /\ LET last == hm.x + 1 = hm.N
           y1 == IF last THEN hm.y + 1 ELSE hm.y
       IN  hm' = [hm EXCEPT !.nverts = @ + 1,
                            !.x = IF last THEN 0 ELSE @ + 1,
                            !.y = y1,
                            !.pc = IF y1 < hm.N THEN "verts" ELSE "resize"]
    /\ UNCHANGED <<context_vars, mc, con, aud>>

(* indices.resize(WM1 * WM1 * 6), then the initialisers of the index loop   *)
hm_resize ==
    /\ hm.pc = "resize"
    /\ LET WM1 == hm.N - 1
       IN  hm' = [hm EXCEPT !.indices = [i \in 1 .. WM1 * WM1 * 6 |-> 0],
                            !.ti = 0, !.vi = 0, !.z = 0, !.x = 0,
                            !.pc = IF 0 < WM1 THEN "indices" ELSE "done"]
    /\ UNCHANGED <<context_vars, mc, con, aud>>

(* The body of for (z < WM1; z++, vi++) for (x < WM1; x++, ti += 6, vi++);  *)
(* a write past the end of `indices` is undefined and stops the model.      *)
hm_write_quad ==
    /\ hm.pc = "indices"
    /\ hm.z < hm.N - 1 /\ hm.x < hm.N - 1
    /\ LET WM1 == hm.N - 1
           q == quad_indices(hm.vi, WM1)
           last == hm.x + 1 = WM1
           z1 == IF last THEN hm.z + 1 ELSE hm.z
       IN  hm' = [hm EXCEPT
                     !.indices = IF hm.ti + 6 <= Len(hm.indices)
                                 THEN [i \in 1 .. Len(hm.indices) |->
                                          IF i > hm.ti /\ i <= hm.ti + 6
                                          THEN q[i - hm.ti]
                                          ELSE hm.indices[i]]
                                 ELSE hm.indices,
                     !.ti = @ + 6,
                     !.vi = IF last THEN @ + 2 ELSE @ + 1,
                     !.x = IF last THEN 0 ELSE @ + 1,
                     !.z = z1,
                     !.pc = IF hm.ti + 6 > Len(hm.indices) THEN "overrun"
                            ELSE IF z1 < WM1 THEN "indices" ELSE "done"]
    /\ UNCHANGED <<context_vars, mc, con, aud>>

from_heightmap == hm_push_vertex \/ hm_resize \/ hm_write_quad

----------------------------------------------------------------------------
(* The developer console: draw() runs on the render thread once a frame,    *)
(* run_pending_commands() on the main thread once an event-loop iteration.  *)
(* `con` holds both threads' positions, the console's members and, as       *)
(* history variables, the lines enqueued and the lines run_command was      *)
(* called with. The entries the log sink stores and the scroll flags do not *)
(* reach the queue or the history and are left out; log_mtx is kept.        *)

MaxLines == 3

(* What input_buffer holds when Enter or Submit is pressed.                 *)
Lines == {"", "a", "b", "clear"}

(* Mutant: the consumer takes the line enqueued last.                       *)
try_dequeue_lifo(q) ==
    [item |-> q[Len(q)], rest |-> SubSeq(q, 1, Len(q) - 1)]

(* cmd_queue.try_dequeue(cmd) on a queue that is not empty: with the render *)
(* thread as its only producer the queue hands out lines in their order.    *)
try_dequeue(q) == [item |-> Head(q), rest |-> Tail(q)]

(* text_edit's new history_pos for an arrow key, `size` being               *)
(* history.size(): size - 1 is -1 on an empty history.                      *)
history_key(pos, size, key) ==
    IF key = "UpArrow"
    THEN IF pos = 0 - 1 THEN size - 1
         ELSE IF pos > 0 THEN pos - 1 ELSE pos
    ELSE IF pos # 0 - 1
         THEN IF pos + 1 >= size THEN 0 - 1 ELSE pos + 1
         ELSE pos

(* run_command's loop from history.size() - 1 down to 0: the last entry     *)
(* equal to `s` is erased.                                                  *)
RECURSIVE erase_last(_, _, _)
erase_last(h, s, i) ==
    IF i = 0 THEN h
    ELSE IF h[i] = s THEN RemoveAt(h, i)
    ELSE erase_last(h, s, i - 1)

ConsoleStart ==
    [r_pc |-> "draw", m_pc |-> "poll", running |-> TRUE, is_open |-> FALSE,
     log_mtx |-> "free", cmd_queue |-> <<>>, history |-> <<>>,
     history_pos |-> 0 - 1, cur |-> "", enqueued |-> <<>>,
     executed |-> <<>>, out_of_range |-> FALSE]

(* draw(): nothing on a closed console; otherwise the entries are listed    *)
(* under log_mtx and the frame's input is handled: an arrow key reaches     *)
(* text_edit, Enter or Submit enqueue a non-empty line, Clear calls         *)
(* clear_storage.                                                           *)
con_draw ==
    /\ con.r_pc = "draw"
    /\ IF ~con.is_open
       THEN con' = [con EXCEPT !.r_pc = "loop"]
       ELSE /\ con.log_mtx = "free"
            /\ \/ con' = [con EXCEPT !.r_pc = "loop"]
               \/ \E key \in {"UpArrow", "DownArrow"} :
                     LET pos == history_key(con.history_pos,
                                            Len(con.history), key)
                     IN  con' = [con EXCEPT
                                   !.history_pos = pos,
                                   !.r_pc = IF pos # con.history_pos
                                            THEN "text_edit" ELSE "loop"]
               \/ \E s \in Lines :
                     /\ Len(con.enqueued) < MaxLines
                     /\ con' = IF s = ""
                               THEN [con EXCEPT !.r_pc = "loop"]
                               ELSE [con EXCEPT
                                       !.cmd_queue = Append(@, s),
                                       !.enqueued = Append(@, s),
                                       !.r_pc = "loop"]
               \/ con' = [con EXCEPT !.r_pc = "clear_storage"]
    /\ UNCHANGED <<context_vars, mc, hm, aud>>

(* text_edit after history_pos changed: history[history_pos] is read when   *)
(* history_pos >= 0, whatever the history now holds.                        *)
con_text_edit ==
    /\ con.r_pc = "text_edit"
    /\ con' = [con EXCEPT
                 !.out_of_range = @ \/ (con.history_pos >= 0 /\
                                        con.history_pos >= Len(con.history)),
                 !.r_pc = "loop"]
    /\ UNCHANGED <<context_vars, mc, hm, aud>>

(* clear_storage() on thread t: log_mtx is taken, then the history is       *)
(* cleared and the lock released. history_pos is left as it is.             *)
con_clear_storage ==
    /\ \E t \in {"render", "main"} :
          LET at == IF t = "render" THEN con.r_pc ELSE con.m_pc
              goto(p) == IF t = "render" THEN [con EXCEPT !.r_pc = p]
                         ELSE [con EXCEPT !.m_pc = p]
          IN  \/ /\ at = "clear_storage"
                 /\ con.log_mtx = "free"
                 /\ con' = [goto("clear_locked") EXCEPT !.log_mtx = t]
              \/ /\ at = "clear_locked"
                 /\ con' = [goto(IF t = "render" THEN "loop" ELSE "drain")
                              EXCEPT !.log_mtx = "free", !.history = <<>>]
    /\ UNCHANGED <<context_vars, mc, hm, aud>>

(* The rest of the render thread's iteration and its `while (running)`.     *)
con_render_loop ==
    /\ con.r_pc = "loop"
    /\ con' = [con EXCEPT !.r_pc = IF con.running THEN "draw" ELSE "done"]
    /\ UNCHANGED <<context_vars, mc, hm, aud>>

(* The main thread's event poll: nothing, the backquote key toggling the    *)
(* console, or an event that clears `running`.                              *)
con_poll ==
    /\ con.m_pc = "poll"
    /\ \/ con' = [con EXCEPT !.m_pc = "drain"]
       \/ con' = [con EXCEPT !.m_pc = "drain", !.is_open = ~@]
       \/ con' = [con EXCEPT !.m_pc = "drain", !.running = FALSE]
    /\ UNCHANGED <<context_vars, mc, hm, aud>>

(* run_pending_commands(): each line try_dequeue yields is handed to        *)
(* run_command, which clears the storage on "clear" and otherwise resets    *)
(* history_pos; an empty queue ends the call and the loop tests `running`.  *)
con_run_pending_commands ==
    /\ con.m_pc = "drain"
    /\ IF con.cmd_queue = <<>>
       THEN con' = [con EXCEPT
                      !.m_pc = IF con.running THEN "poll" ELSE "exited"]
       ELSE LET d == try_dequeue(con.cmd_queue)
                c == [con EXCEPT !.cmd_queue = d.rest, !.cur = d.item,
                                 !.executed = Append(@, d.item)]
            IN  con' = IF d.item = "clear"
                       THEN [c EXCEPT !.m_pc = "clear_storage"]
                       ELSE [c EXCEPT !.history_pos = 0 - 1,
                                      !.m_pc = "history"]
    /\ UNCHANGED <<context_vars, mc, hm, aud>>

(* run_command's update of the history: the line's earlier entry is erased  *)
(* and the line is pushed at the back.                                      *)
con_run_command ==
    /\ con.m_pc = "history"
    /\ con' = [con EXCEPT
                 !.history = Append(erase_last(@, con.cur, Len(@)), con.cur),
                 !.m_pc = "drain"]
    /\ UNCHANGED <<context_vars, mc, hm, aud>>

console_step ==
    \/ con_draw
    \/ con_text_edit
    \/ con_clear_storage
    \/ con_render_loop
    \/ con_poll
    \/ con_run_pending_commands
    \/ con_run_command

----------------------------------------------------------------------------
(* media_context's audio: the worker thread started by the constructor and  *)
(* the thread that calls the context's functions and destroys it. `aud`     *)
(* holds the alive flag, the holder of audio_mutex, both positions, the     *)
(* sound effects (TRUE = still playing) and whether music holds a stream.   *)

MaxSounds == 2

AudioOps == {"stop_all_sound", "play_sound", "stop_music", "play_music"}

AudioStart ==
    [alive |-> TRUE, audio_mutex |-> "free", w_pc |-> "test",
     c_pc |-> "idle", op |-> "none", sfx |-> <<>>, music |-> FALSE]

(* A call of one of the four functions, up to its first access to the       *)
(* streams: play_sound and play_music return early when the file or its     *)
(* decoder is missing; stop_music takes no lock.                            *)
aud_call ==
    /\ aud.c_pc = "idle"
    /\ \E f \in AudioOps, found \in BOOLEAN :
          /\ f = "play_sound" => Len(aud.sfx) < MaxSounds
          /\ aud' = IF f \in {"play_sound", "play_music"} /\ ~found
                    THEN aud
                    ELSE [aud EXCEPT !.op = f,
                                     !.c_pc = IF f = "stop_music"
                                              THEN "access" ELSE "lock"]
    /\ UNCHANGED <<context_vars, mc, hm, con>>

(* audio_mutex.lock() / the scoped_lock of the calling thread.              *)
aud_lock ==
    /\ aud.c_pc = "lock"
    /\ aud.audio_mutex = "free"
    /\ aud' = [aud EXCEPT !.audio_mutex = "caller", !.c_pc = "access"]
    /\ UNCHANGED <<context_vars, mc, hm, con>>

(* stop_all_sound: every stream is stopped, the list cleared, the lock      *)
(* released on return.                                                      *)
stop_all_sound ==
    /\ aud.c_pc = "access" /\ aud.op = "stop_all_sound"
    /\ aud' = [aud EXCEPT !.sfx = <<>>, !.audio_mutex = "free",
                          !.c_pc = "idle", !.op = "none"]
    /\ UNCHANGED <<context_vars, mc, hm, con>>

(* play_sound: a playing stream is pushed, then audio_mutex.unlock().       *)
play_sound ==
    /\ aud.c_pc = "access" /\ aud.op = "play_sound"
    /\ aud' = [aud EXCEPT !.sfx = Append(@, TRUE), !.audio_mutex = "free",
                          !.c_pc = "idle", !.op = "none"]
    /\ UNCHANGED <<context_vars, mc, hm, con>>

(* stop_music: music.reset(), with audio_mutex left as it is.               *)
stop_music ==
    /\ aud.c_pc = "access" /\ aud.op = "stop_music"
    /\ aud' = [aud EXCEPT !.music = FALSE, !.c_pc = "idle", !.op = "none"]
    /\ UNCHANGED <<context_vars, mc, hm, con>>

(* play_music: music is reset and emplaced, then audio_mutex.unlock().      *)
play_music ==
    /\ aud.c_pc = "access" /\ aud.op = "play_music"
    /\ aud' = [aud EXCEPT !.music = TRUE, !.audio_mutex = "free",
                          !.c_pc = "idle", !.op = "none"]
    /\ UNCHANGED <<context_vars, mc, hm, con>>

(* A sound effect plays to its end.                                         *)
stream_finish ==
    /\ \E i \in 1 .. Len(aud.sfx) :
          /\ aud.sfx[i]
          /\ aud' = [aud EXCEPT !.sfx[i] = FALSE]
    /\ UNCHANGED <<context_vars, mc, hm, con>>

(* The streams of `s` that are still playing, in their order: what          *)
(* erase(remove_if(!isPlaying)) leaves.                                     *)
StillPlaying(s) == SelectSeq(s, LAMBDA playing : playing)

(* The worker's loop: the test of `alive`, audio_mutex.lock(), the reaping  *)
(* of finished streams with the unlock, and the sleep.                      *)
audio_worker ==
    /\ \/ /\ aud.w_pc = "test"
          /\ aud' = [aud EXCEPT !.w_pc = IF aud.alive THEN "lock"
                                         ELSE "exited"]
       \/ /\ aud.w_pc = "lock"
          /\ aud.audio_mutex = "free"
          /\ aud' = [aud EXCEPT !.audio_mutex = "worker", !.w_pc = "reap"]
       \/ /\ aud.w_pc = "reap"
          /\ aud' = [aud EXCEPT !.sfx = StillPlaying(@),
                                !.audio_mutex = "free", !.w_pc = "sleep"]
       \/ /\ aud.w_pc = "sleep"
          /\ aud' = [aud EXCEPT !.w_pc = "test"]
    /\ UNCHANGED <<context_vars, mc, hm, con>>

(* ~media_context: alive is cleared, the worker joined, then the streams    *)
(* are stopped and the list cleared.                                        *)
media_context_dtor ==
    /\ \/ /\ aud.c_pc = "idle"
          /\ aud' = [aud EXCEPT !.alive = FALSE, !.c_pc = "join"]
       \/ /\ aud.c_pc = "join"
          /\ aud.w_pc = "exited"
          /\ aud' = [aud EXCEPT !.c_pc = "joined"]
       \/ /\ aud.c_pc = "joined"
          /\ aud' = [aud EXCEPT !.sfx = <<>>, !.c_pc = "destroyed"]
    /\ UNCHANGED <<context_vars, mc, hm, con>>

audio_step ==
    \/ aud_call
    \/ aud_lock
    \/ stop_all_sound
    \/ play_sound
    \/ stop_music
    \/ play_music
    \/ stream_finish
    \/ audio_worker
    \/ media_context_dtor

----------------------------------------------------------------------------
UnitsIdle == HandlesIdle /\ LayoutIdle /\ SelectIdle

(* The operations outside the context before they are called: the one      *)
(* named by `unit` with its inputs drawn, the others at rest.               *)
LibInit(unit) ==
    /\ IF unit = "polygonise"
       THEN \E cell \in [1 .. 8 -> CellValues] : mc = CubeCell(cell)
       ELSE mc = CubeCell([i \in 1 .. 8 |-> 1])
    /\ IF unit = "from_heightmap"
       THEN \E n \in Widths : hm = HeightmapStart(n)
       ELSE hm = HeightmapStart(1)
    /\ con = ConsoleStart
    /\ aud = AudioStart

----------------------------------------------------------------------------
(* The state after context::context: the first swapchain is built against  *)
(* the new window, the fence is created signalled and the semaphores        *)
(* unsignalled.                                                             *)

FrameInit ==
    /\ pc = "frame_begin"
    /\ rb_ret = "record"
    /\ ret = TRUE
    /\ res_acq = "eSuccess"
    /\ res_pres = "eSuccess"
    /\ lv = [sema_depth |-> "none", sema_lc |-> "none", sema_geom |-> "none",
             sema_imgui |-> "none"]
    /\ running = TRUE
    /\ builds = 1
    /\ \E n \in ImageCounts :
          /\ sc = create_swapchain(NoSwapchain, 1, InitialExtent, n)
          /\ img_state = [i \in 1 .. n |-> "free"]
    /\ img_idx = 0
    /\ frame = 0
    /\ fence_render = TRUE
    /\ sema = [x \in Semas |-> FALSE]
    /\ gpu_pending = <<>>
    /\ log = <<>>
    /\ ftrace = <<"IDLE">>
    /\ fence_signals = 0
    /\ need_rebuild = FALSE
    /\ rb_trace = <<>>
    /\ last_exec = NoBatch
    /\ acquired = 0
    /\ sema_overrun = FALSE
    /\ vk_cam = [data |-> 0, staging |-> 0, buffer |-> 0, trace |-> <<>>]
    /\ main_pc = "event_loop"
    /\ main_touched = {}
    /\ destroyed = <<>>

Init == FrameInit /\ UnitsIdle /\ LibInit("none")

Next ==
    \/ frame_begin
    \/ ubo_update
    \/ consume_onetime_buffer
    \/ loop_start_render
    \/ loop_start_render_ret
    \/ rebuild_swapchain
    \/ loop_record
    \/ loop_submit_prepass
    \/ loop_compute_lightcull
    \/ loop_submit_geometry
    \/ loop_render_imgui
    \/ loop_present_frame
    \/ loop_present_frame_ret
    \/ loop_end
    \/ final_waitidle
    \/ main_loop_iteration
    \/ main_quit
    \/ main_join
    \/ main_vk_cam_destroy
    \/ dtor_waitidle
    \/ dtor_destroy
    \/ gpu_step

Spec == Init /\ [][Next]_vars

(* The operations checked apart from the frame loop, each from a context    *)
(* at rest.                                                                 *)
InitHandles ==
    FrameInit /\ HandlesInit /\ LayoutIdle /\ SelectIdle /\ LibInit("none")

SpecHandles == InitHandles /\ [][HandlesNext]_vars

InitLayout ==
    FrameInit /\ HandlesIdle /\ LayoutInit /\ SelectIdle /\ LibInit("none")

SpecLayout == InitLayout /\ [][lc_call]_vars

InitSelect ==
    FrameInit /\ HandlesIdle /\ LayoutIdle /\ SelectInit /\ LibInit("none")

SpecSelect == InitSelect /\ [][sel_call]_vars

InitCubes == FrameInit /\ UnitsIdle /\ LibInit("polygonise")

SpecCubes == InitCubes /\ [][mc_call]_vars

InitHeightmap == FrameInit /\ UnitsIdle /\ LibInit("from_heightmap")

SpecHeightmap == InitHeightmap /\ [][from_heightmap]_vars

(* The console and the audio start as their constructors leave them.        *)
SpecConsole == Init /\ [][console_step]_vars

SpecAudio == Init /\ [][audio_step]_vars

----------------------------------------------------------------------------
(* Properties                                                               *)

IsPrefix(s, u) == Len(s) <= Len(u) /\ s = SubSeq(u, 1, Len(s))

Pending == Range(gpu_pending)

StageOrder == <<"prepass", "cull", "geometry", "overlay", "present">>

StageRank(st) == CHOOSE i \in 1 .. Len(StageOrder) : StageOrder[i] = st

FrameCycle ==
    <<"IDLE", "ACQUIRED", "RECORDED", "SUBMITTED(prepass)", "SUBMITTED(cull)",
      "SUBMITTED(geometry)", "SUBMITTED(overlay)", "PRESENTED">>

RebuildOrder ==
    <<"waitIdle", "destroy_swapchain", "waitIdle", "create_swapchain">>

InRebuild ==
    pc \in {"rebuild_waitidle_1", "rebuild_destroy", "rebuild_waitidle_2",
            "rebuild_create"}

(* C1: in every frame the recorded submissions are, in this order, prepass, *)
(* light-cull, geometry, overlay, present; light-cull waits on              *)
(* prepass-done, geometry's wait list includes light-cull-done, overlay's   *)
(* includes render-done and present waits on overlay-done, each stage       *)
(* signalling the semaphore its successor waits on; and the device never    *)
(* executes a stage while a predecessor of the same frame is still pending. *)
C1_SemaphoreChain ==
    /\ IsPrefix([i \in 1 .. Len(log) |-> log[i].stage], StageOrder)
    /\ \A i \in 1 .. Len(log) :
          LET b == log[i] IN
          /\ b.stage = "prepass" => b.signal = "sema_prepassdone"
          /\ b.stage = "cull" =>
                /\ "sema_prepassdone" \in Range(b.waits)
                /\ b.signal = "sema_lightculldone"
          /\ b.stage = "geometry" =>
                /\ "sema_lightculldone" \in Range(b.waits)
                /\ b.signal = "sema_renderdone"
          /\ b.stage = "overlay" =>
                /\ "sema_renderdone" \in Range(b.waits)
                /\ b.signal = "sema_imgui"
          /\ b.stage = "present" => "sema_imgui" \in Range(b.waits)
    /\ last_exec # NoBatch =>
          \A b \in Pending :
             b.frame = last_exec.frame =>
                StageRank(b.stage) > StageRank(last_exec.stage)

(* C1 witness: a whole frame was recorded and its overlay pass has run.     *)
C1_Witness ==
    /\ Len(log) = 5
    /\ last_exec.stage = "overlay"
    /\ last_exec.frame = log[4].frame

(* C2: once start_render or present_frame has returned false, no image is   *)
(* acquired until rebuild_swapchain has completed: the render thread never  *)
(* stands before start_render's acquire with a rebuild outstanding.         *)
C2_RebuildBeforeAcquire ==
    /\ pc = "start_render" => ~need_rebuild
    /\ need_rebuild =>
          \/ InRebuild
          \/ pc \in {"start_render_ret", "present_frame_ret"} /\ ~ret

(* C2 witness: a false return was answered by a rebuild and the thread is   *)
(* about to acquire again.                                                  *)
C2_Witness ==
    /\ pc = "start_render"
    /\ builds > 1
    /\ ~ret
    /\ rb_trace = RebuildOrder

(* C3: the states a frame passes since it began (or since the swapchain was *)
(* built) are a prefix of IDLE, ACQUIRED, RECORDED, SUBMITTED(prepass),     *)
(* SUBMITTED(cull), SUBMITTED(geometry), SUBMITTED(overlay), PRESENTED:     *)
(* none is skipped, repeated or reordered, and RECORDED and the SUBMITTED   *)
(* states come only after ACQUIRED.                                         *)
C3_FrameCycle == IsPrefix(ftrace, FrameCycle)

(* C4: the overlay submission is the only submission that carries           *)
(* fence_render, and between two resets of the fence by start_render at     *)
(* most one signal of it is pending or has happened.                        *)
C4_OverlayAloneSignalsFence ==
    /\ \A b \in Pending \cup Range(log) \cup {last_exec} :
          b.fence <=> b.stage = "overlay"
    /\ fence_signals + Cardinality({i \in 1 .. Len(gpu_pending) :
                                       gpu_pending[i].fence}) <= 1

(* C4 witness: the fence was reset by start_render and signalled again by   *)
(* the overlay submission of that frame.                                    *)
C4_Witness ==
    /\ fence_signals = 1
    /\ fence_render
    /\ last_exec.stage = "overlay"
    /\ frame > 0

(* C5 (as claimed): an acquire that returns out-of-date or suboptimal makes *)
(* start_render return false.                                               *)
C5_AcquireSignalsBoth ==
    (pc = "start_render_ret"
     /\ res_acq \in {"eErrorOutOfDateKHR", "eSuboptimalKHR"}) => ~ret

(* C5 (amended): start_render returns false exactly when the acquire result *)
(* is out-of-date, and only then does the caller rebuild the swapchain      *)
(* before recording; a suboptimal acquire returns true and the frame goes   *)
(* on without a rebuild.                                                    *)
C5_AcquireSignalsOutOfDate ==
    /\ pc = "start_render_ret" => (ret <=> res_acq # "eErrorOutOfDateKHR")
    /\ (InRebuild /\ rb_ret = "record") => res_acq = "eErrorOutOfDateKHR"
    /\ (pc = "record" /\ res_acq = "eErrorOutOfDateKHR") =>
          (~need_rebuild /\ rb_trace = RebuildOrder)

(* C5 witness: an out-of-date acquire has led to a completed rebuild.       *)
C5_Witness ==
    /\ pc = "record"
    /\ res_acq = "eErrorOutOfDateKHR"
    /\ builds > 1

(* C6: present_frame returns false exactly when the present outcome is      *)
(* suboptimal or out-of-date, the latter as a result code or as the thrown  *)
(* OutOfDateKHRError.                                                       *)
C6_PresentSignals ==
    pc = "present_frame_ret" =>
       (~ret <=> res_pres \in {"eSuboptimalKHR", "eErrorOutOfDateKHR",
                               "OutOfDateKHRError"})

(* The swapchain-dependent set of s is whole and of generation g: every     *)
(* handle is live and was created against g, there is one image view,       *)
(* framebuffer and geometry command buffer per image, and the descriptor    *)
(* sets and the recorded light-cull buffer refer to objects of g.           *)
SwapchainSetOf(s, g) ==
    /\ \A h \in {s.swapchain, s.depth_prepass, s.render_pass, s.imgui_pass,
                 s.depth_image, s.prepass_framebuffer, s.ppl_depth,
                 s.ppl_render, s.ppl_comp, s.cmdbuf_prepass, s.cmdbuf_imgui}
             \cup Range(s.images) \cup Range(s.imgviews)
             \cup Range(s.framebufs) \cup Range(s.cmdbufs_gfx) :
          h = Handle(g)
    /\ s.lightvis.gen = g /\ s.lightvis.live
    /\ s.cmdbuf_lightcull.gen = g /\ s.cmdbuf_lightcull.live
    /\ s.cmdbuf_lightcull.lightvis = g /\ s.cmdbuf_lightcull.ppl = g
    /\ s.descset_inter = g /\ s.descset_lightcull = g
    /\ Len(s.imgviews) = Len(s.images)
    /\ Len(s.framebufs) = Len(s.images)
    /\ Len(s.cmdbufs_gfx) = Len(s.images)

(* C7: while the context lives, outside the window between                  *)
(* destroy_swapchain and create_swapchain every swapchain-dependent handle  *)
(* the context holds was created against the current swapchain generation,  *)
(* and no batch in flight uses a command buffer of an earlier generation.   *)
C7_SwapchainSetIsOneGeneration ==
    /\ (pc \notin {"rebuild_waitidle_2", "rebuild_create"}
        /\ main_pc # "exited") =>
          SwapchainSetOf(sc, builds)
    /\ \A b \in Pending :
          b.cmdbuf # NullHandle => (b.cmdbuf.gen = builds /\ b.cmdbuf.live)

(* C7 witness: a frame is being submitted on a rebuilt swapchain.           *)
C7_Witness ==
    /\ builds > 1
    /\ pc = "render_imgui"
    /\ acquired = builds
    /\ Len(gpu_pending) >= 2

(* C8: rebuild_swapchain runs waitIdle, destroy_swapchain, waitIdle,        *)
(* create_swapchain in this order; the device is idle whenever the teardown *)
(* or the re-creation is about to run; and a completed rebuild leaves the   *)
(* tile grid of the new extent and a light-cull buffer recorded for it.     *)
C8_RebuildOrder ==
    /\ IsPrefix(rb_trace, RebuildOrder)
    /\ pc = "rebuild_waitidle_1" => rb_trace = <<>>
    /\ pc = "rebuild_destroy" => (DeviceIdle /\ Len(rb_trace) = 1)
    /\ pc = "rebuild_waitidle_2" =>
          (Len(rb_trace) = 2 /\ ~sc.swapchain.live)
    /\ pc = "rebuild_create" => (DeviceIdle /\ Len(rb_trace) = 3)
    /\ (~InRebuild /\ builds > 1) =>
          /\ rb_trace = RebuildOrder
          /\ sc.tile_count = update_lightcull_tilecounts(sc.extent)
          /\ sc.cmdbuf_lightcull.gen = builds
          /\ sc.cmdbuf_lightcull.dispatch = sc.tile_count

(* C8 witness: a rebuild following a presented frame is about to tear down. *)
C8_Witness ==
    /\ pc = "rebuild_destroy"
    /\ rb_ret = "loop_end"
    /\ last_exec.stage = "present"

(* C9: the light-cull command buffer held by a built swapchain was recorded *)
(* exactly once, with the tile grid of that build as dispatch size; every   *)
(* light-cull batch in flight carries that very buffer; and the buffer      *)
(* changes in no step other than the teardown and re-creation steps of a    *)
(* swapchain rebuild and the context's destruction at shutdown.             *)
C9_LightcullRecordedOncePerBuild ==
    /\ [](/\ sc.cmdbuf_lightcull.live =>
                /\ sc.cmdbuf_lightcull.recordings = 1
                /\ sc.cmdbuf_lightcull.gen = builds
                /\ sc.cmdbuf_lightcull.dispatch
                      = update_lightcull_tilecounts(sc.extent)
          /\ \A b \in Pending :
                b.stage = "cull" => b.cmdbuf = sc.cmdbuf_lightcull)
    /\ [][sc.cmdbuf_lightcull' # sc.cmdbuf_lightcull =>
             (\/ pc \in {"rebuild_destroy", "rebuild_create"}
              \/ main_pc = "dtor_destroy")]_vars

(* C9 witness: after frame 0 submitted the buffer of the first build, a     *)
(* later frame submits the buffer a rebuild recorded, on an image of the    *)
(* rebuilt swapchain.                                                       *)
C9_Witness ==
    /\ builds > 1
    /\ frame >= 1
    /\ \E b \in Pending : b.stage = "cull" /\ b.cmdbuf.gen = builds
    /\ acquired = builds

CeilDiv(d, k) == (d + k - 1) \div k

(* C10: on a built swapchain the tile grid is the exact ceiling division of *)
(* the extent by the tile size on each axis, a zero dimension included.     *)
C10_TileGridIsCeiling ==
    sc.swapchain.live =>
       /\ sc.tile_count[1] = CeilDiv(sc.extent[1], TILE_SIZE)
       /\ sc.tile_count[2] = CeilDiv(sc.extent[2], TILE_SIZE)

(* C11: after a move of a vma_buffer or vma_image the moved-from instance   *)
(* reads as null in every handle field, and destroy on it frees nothing.    *)
C11_MovedFromIsNull ==
    last_op.op = "move" =>
       /\ operator_not(wrap[last_op.src])
       /\ wrap_destroy(wrap[last_op.src]) = {}

(* C12: whatever sequence of copies, moves and destroys runs, on one        *)
(* instance or on aliasing copies, no allocation is freed a second time.    *)
C12_NoDoubleFree == \A i \in 1 .. Len(freed) : freed[i] <= 1

(* The (from, to) pairs the specification enumerates.                       *)
SupportedTransitions ==
    {<<"ePreinitialized", "eTransferSrcOptimal">>,
     <<"ePreinitialized", "eTransferDstOptimal">>,
     <<"eUndefined", "eDepthStencilAttachmentOptimal">>,
     <<"eUndefined", "eShaderReadOnlyOptimal">>,
     <<"eDepthStencilAttachmentOptimal", "eShaderReadOnlyOptimal">>,
     <<"eShaderReadOnlyOptimal", "eDepthStencilAttachmentOptimal">>,
     <<"eTransferDstOptimal", "eShaderReadOnlyOptimal">>}

(* C13: record_image_layout_change records exactly one barrier for each of  *)
(* the seven enumerated (from, to) pairs, and for every other pair aborts   *)
(* and records none.                                                        *)
C13_LayoutPairs ==
    lc.called =>
       IF <<lc.from, lc.to>> \in SupportedTransitions
       THEN ~lc.out.aborted /\ Len(lc.out.barriers) = 1
       ELSE lc.out.aborted /\ lc.out.barriers = <<>>

(* C14: the frame counter starts at 0, every present_frame call adds        *)
(* exactly one to it whatever the outcome of the present, and no other      *)
(* step, a swapchain rebuild included, changes it.                          *)
C14_FrameCounter ==
    /\ frame = 0
    /\ [][/\ frame' # frame => (pc = "present_frame" /\ frame' = frame + 1)
          /\ (pc = "present_frame" /\ pc' = "present_frame_ret") =>
                frame' = frame + 1]_vars

(* C14 witness: a present that asked for a rebuild and a present after that *)
(* rebuild have both been counted.                                          *)
C14_Witness ==
    /\ frame >= 2
    /\ builds > 1
    /\ rb_trace = RebuildOrder
    /\ pc = "present_frame_ret"

(* C15: whenever the render loop is about to call vk_cam.update, no         *)
(* one-time copy reading the staging allocation is still in flight, and at  *)
(* most one such copy is ever in flight.                                    *)
C15_NoUpdateWhileCopyInFlight ==
    /\ pc = "ubo_update" => ~CopyInFlight
    /\ Cardinality({i \in 1 .. Len(gpu_pending) :
                       gpu_pending[i].stage = "copy"}) <= 1

(* C15 witness: a second update is about to run, the copy of the first      *)
(* having reached the device buffer.                                        *)
C15_Witness ==
    /\ pc = "ubo_update"
    /\ frame >= 1
    /\ vk_cam.buffer = frame
    /\ vk_cam.trace = <<"staging", "submit", "device">>

(* C16: within an update the writes are host to staging, then the submitted *)
(* copy, then staging to device; once the update has returned the copy has  *)
(* completed and staging and device both hold the host value; and the       *)
(* device buffer only ever receives the contents of staging.                *)
C16_HostStagingDevice ==
    /\ [](/\ IsPrefix(vk_cam.trace, <<"staging", "submit", "device">>)
          /\ pc # "consume_onetime_buffer" =>
                /\ ~CopyInFlight
                /\ vk_cam.staging = vk_cam.data
                /\ vk_cam.buffer = vk_cam.data
                /\ Len(vk_cam.trace) \in {0, 3})
    /\ [][vk_cam.buffer' # vk_cam.buffer =>
             (vk_cam.buffer' = vk_cam.staging /\ CopyInFlight)]_vars

(* C16 witness: the second frame's update has returned with its value in    *)
(* the device buffer.                                                       *)
C16_Witness ==
    /\ pc = "start_render"
    /\ frame >= 1
    /\ vk_cam.buffer = frame + 1
    /\ vk_cam.staging = frame + 1

(* C17 (as claimed): the main thread uses no GPU handle at all while the    *)
(* render thread runs.                                                      *)
C17_OnlyRenderThread == main_touched = {}

(* C17 (amended): while the render thread runs the main thread uses none of *)
(* the logical device, queues, pools, allocator or swapchain; the one       *)
(* handle it does use, through the vkdiag console command, is the physical  *)
(* device.                                                                  *)
C17_MainThreadOnlyQueriesGpu ==
    /\ main_touched \cap DeviceHandles = {}
    /\ main_touched \subseteq {"gpu"}

(* C17 witness: vkdiag has queried the physical device from the main thread *)
(* while the render thread was submitting a frame.                          *)
C17_Witness ==
    /\ main_touched = {"gpu"}
    /\ pc = "render_imgui"
    /\ main_pc = "event_loop"

(* A device meets the stated requirements: a graphics+compute family with   *)
(* at least two queues, a present-capable family, and a transfer family     *)
(* that is neither of them.                                                 *)
MeetsRequirements(g) ==
    \E a \in 1 .. Len(g.qfam_props), b \in 1 .. Len(g.qfam_props),
       c \in 1 .. Len(g.qfam_props) :
       /\ suitable_gfx_queue_family(g.qfam_props[a])
       /\ g.qfam_props[b].pres
       /\ g.qfam_props[c].trans
       /\ c # a /\ c # b

(* C18: the device selection returns only a device that meets the           *)
(* requirements, fails only when no usable device meets them, and passes    *)
(* over no usable device that meets them.                                   *)
C18_SelectionMeetsRequirements ==
    sel.called =>
       IF sel.gpu = INVALID_QUEUE_FAMILY
       THEN \A k \in 1 .. Len(sel.gpus) :
               ~(sel.gpus[k].supported /\ MeetsRequirements(sel.gpus[k]))
       ELSE /\ MeetsRequirements(sel.gpus[sel.gpu + 1])
            /\ \A k \in 1 .. sel.gpu :
                  ~(sel.gpus[k].supported /\ MeetsRequirements(sel.gpus[k]))

ShutdownOrder ==
    <<"vk_cam", "waitIdle", "swapchain", "ubos", "descriptors", "sync",
      "cmdpools", "device">>

(* C19: GPU objects are destroyed only at shutdown, each once and in the    *)
(* order vk_cam, then the context's own; whenever any has been destroyed    *)
(* the render thread has returned and been joined and the device is idle;   *)
(* and the exited process holds no live swapchain.                          *)
C19_DestroyAfterIdle ==
    /\ IsPrefix(destroyed, ShutdownOrder)
    /\ destroyed # <<>> => (pc = "done" /\ DeviceIdle /\ ~running)
    /\ main_pc \in {"event_loop", "join", "vk_cam_destroy"} =>
          destroyed = <<>>
    /\ main_pc = "exited" => (destroyed = ShutdownOrder /\ ~sc.swapchain.live)

(* C19 witness: the process has exited after rendering and presenting.      *)
C19_Witness ==
    /\ main_pc = "exited"
    /\ frame >= 1
    /\ last_exec.stage = "present"

(* C20: a constructor whose allocator call failed leaves the instance in    *)
(* the default state, testing as empty, with the status code logged; and no *)
(* instance ever holds some handles but not the others.                     *)
C20_FailedCtorLeavesDefault ==
    /\ (last_op.op = "ctor" /\ last_op.res < 0) =>
          /\ wrap[last_op.dst] = DefaultWrap(wrap[last_op.dst].kind)
          /\ operator_not(wrap[last_op.dst])
          /\ errlog # <<>>
          /\ errlog[Len(errlog)] = last_op.res
    /\ \A s \in Slots :
          \/ operator_not(wrap[s])
          \/ /\ wrap[s].handle # 0 /\ wrap[s].memory # 0
             /\ wrap[s].allocation # 0
             /\ (wrap[s].kind = "vma_image" => wrap[s].view # 0)

(* C20 witness: an image constructor has failed after an earlier success.   *)
C20_Witness ==
    /\ last_op.op = "ctor"
    /\ last_op.res < 0
    /\ wrap[last_op.dst].kind = "vma_image"
    /\ Len(freed) > 0

(* The product of the three factors with no digit dropped.                  *)
ExactProduct(x, y, z) ==
    LET xy == MulDigits(Digits(x, 4), Digits(y, 4), 1, 0, 8)
    IN  MulDigits(xy, Digits(z, 4), 1, 0, 12)

(* C21: on a built swapchain the light-visibility buffer belongs to that    *)
(* build and its size is (1 + MAX_POINTLIGHTS_PER_TILE) * 4 bytes times the *)
(* two tile counts of the current extent.                                   *)
C21_LightvisSizedForExtent ==
    sc.swapchain.live =>
       /\ sc.lightvis.live
       /\ sc.lightvis.gen = sc.swapchain.gen
       /\ sc.tile_count = update_lightcull_tilecounts(sc.extent)
       /\ TILE_BUFFERSIZE = (1 + MAX_POINTLIGHTS_PER_TILE) * 4
       /\ sc.lightvis.size \o <<0, 0, 0, 0>>
             = ExactProduct(TILE_BUFFERSIZE, sc.tile_count[1], sc.tile_count[2])

(* Where the caller samples the value of corner c, relative to the cell.    *)
CornerPos ==
    <<<<0, 0, 0>>, <<1, 0, 0>>, <<1, 1, 0>>, <<0, 1, 0>>,
      <<0, 0, 1>>, <<1, 0, 1>>, <<1, 1, 1>>, <<0, 1, 1>>>>

(* The corners that share a cell edge with corner c.                        *)
Adjacent(c) ==
    {d \in 1 .. 8 :
        Cardinality({k \in 1 .. 3 : CornerPos[c][k] # CornerPos[d][k]}) = 1}

(* Vertex v lies on the segment from position a to position b of the cell's *)
(* axis-aligned edges.                                                      *)
OnEdge(v, a, b) ==
    /\ v.den # 0
    /\ \A k \in 1 .. 3 :
          IF a[k] = b[k] THEN v.num[k] = a[k] * v.den
          ELSE IF v.den > 0 THEN 0 <= v.num[k] /\ v.num[k] <= v.den
          ELSE v.den <= v.num[k] /\ v.num[k] <= 0

(* C22: a cell whose corners are all positive or all negative has mask 0 or *)
(* 255, edge mask 0, and polygonise returns no vertex and no triangle.      *)
C22_UniformCellIsEmpty ==
    (/\ mc.called
     /\ \/ \A i \in 1 .. 8 : mc.cell[i] > 0
        \/ \A i \in 1 .. 8 : mc.cell[i] < 0) =>
       /\ ndx(mc.cell) \in {0, 255}
       /\ MARCHING_CUBES_EDGES[ndx(mc.cell) + 1] = 0
       /\ mc.out.verts = <<>>
       /\ mc.out.tris = <<>>

(* C22 witness: polygonise has returned for a cell with eight negative      *)
(* corners.                                                                 *)
C22_Witness == mc.called /\ \A i \in 1 .. 8 : mc.cell[i] < 0

(* C23: for a cell with exactly one negative corner and seven positive ones *)
(* polygonise returns three vertices and one triangle over them, and the    *)
(* vertices lie one each on the three cell edges incident to that corner.   *)
C23_SingleCornerTriangle ==
    \A c \in 1 .. 8 :
       (/\ mc.called
        /\ mc.cell[c] < 0
        /\ \A d \in (1 .. 8) \ {c} : mc.cell[d] > 0) =>
          /\ Len(mc.out.verts) = 3
          /\ Len(mc.out.tris) = 1
          /\ Range(mc.out.tris[1]) = {0, 1, 2}
          /\ \A d \in Adjacent(c) :
                Cardinality({k \in 1 .. 3 :
                    OnEdge(mc.out.verts[k], CornerPos[c], CornerPos[d])}) = 1
          /\ \A k \in 1 .. 3 : \E d \in Adjacent(c) :
                OnEdge(mc.out.verts[k], CornerPos[c], CornerPos[d])

(* C23 witness: polygonise has returned for a cell whose last corner alone  *)
(* is negative, among unequal positive values.                              *)
C23_Witness ==
    /\ mc.called
    /\ mc.cell[8] < 0
    /\ \A d \in 1 .. 7 : mc.cell[d] > 0
    /\ mc.cell[7] # mc.cell[5]

(* C24: when from_heightmap has filled its mesh for an N x N grid it holds  *)
(* N * N vertices and 6 * (N - 1) * (N - 1) indices, that is                *)
(* 2 * (N - 1) * (N - 1) triangles, every index is below N * N, and no      *)
(* write of the index loop fell outside the index array.                    *)
C24_HeightmapCounts ==
    /\ hm.pc # "overrun"
    /\ hm.pc = "done" =>
          /\ hm.nverts = hm.N * hm.N
          /\ Len(hm.indices) = 6 * (hm.N - 1) * (hm.N - 1)
          /\ hm.ti = Len(hm.indices)
          /\ \A i \in 1 .. Len(hm.indices) :
                0 <= hm.indices[i] /\ hm.indices[i] < hm.N * hm.N

(* C24 witness: the mesh of a heightmap of several rows and columns is      *)
(* complete, its last index naming the last vertex.                         *)
C24_Witness ==
    /\ hm.pc = "done"
    /\ hm.N = MaxWidth
    /\ hm.indices[Len(hm.indices)] = hm.nverts - 1

C26_SemaphoresPaired ==
    /\ ~sema_overrun
    /\ pc = "render_imgui" =>
          (res_acq # "eErrorOutOfDateKHR" /\ acquired = builds)

(* C27: on a built swapchain there is one framebuffer and one geometry      *)
(* command buffer per swapchain image, and whenever start_render_record,    *)
(* submit_geometry, render_imgui or present_frame is about to use img_idx,  *)
(* img_idx came from an acquire on the current swapchain and is below that  *)
(* count.                                                                   *)
C27_ImageIndexIsCurrent ==
    /\ sc.swapchain.live =>
          /\ Len(sc.framebufs) = Len(sc.images)
          /\ Len(sc.cmdbufs_gfx) = Len(sc.images)
    /\ pc \in {"record", "submit_geometry", "render_imgui", "present_frame"} =>
          /\ acquired = builds
          /\ img_idx < Len(sc.images)

(* C28, as stated: every line the render thread enqueued has been executed  *)
(* once both threads have left their loops: none is lost.                   *)
C28_EveryLineExecuted ==
    (con.m_pc = "exited" /\ con.r_pc = "done") => con.executed = con.enqueued

(* C28: the lines run_command was called with, followed by the lines still  *)
(* in the queue, are the lines draw() enqueued, in their order: each line   *)
(* is executed at most once, in submission order, and is otherwise still    *)
(* pending; an empty input line is never enqueued.                          *)
C28_ExecutedOnceInOrder ==
    /\ con.executed \o con.cmd_queue = con.enqueued
    /\ \A i \in 1 .. Len(con.enqueued) : con.enqueued[i] # ""

(* Two lines were executed while a third, enqueued later, is still pending. *)
C28_Witness ==
    /\ Len(con.executed) = 2
    /\ con.executed[1] # con.executed[2]
    /\ Len(con.cmd_queue) = 1
    /\ con.m_pc = "history"
    /\ con.r_pc = "draw"

(* C29: whenever text_edit is about to index the history, history_pos lies  *)
(* in -1 .. history.size() - 1 and the main thread is not in the middle of  *)
(* changing the history; no index was ever out of range; and the history    *)
(* never holds a command twice.                                             *)
C29_HistoryConsistent ==
    /\ con.r_pc = "text_edit" =>
          /\ 0 - 1 <= con.history_pos
          /\ con.history_pos < Len(con.history)
          /\ con.m_pc \notin {"history", "clear_locked"}
    /\ ~con.out_of_range
    /\ \A i, j \in 1 .. Len(con.history) :
          con.history[i] = con.history[j] => i = j

(* C30: each access of the worker and of play_sound, stop_all_sound,        *)
(* play_music and stop_music to the sound list or the music stream happens  *)
(* while the accessing thread holds audio_mutex, and the join of the        *)
(* destructor returns only after the worker has left its loop.              *)
C30_AccessUnderMutex ==
    /\ aud.c_pc = "access" => aud.audio_mutex = "caller"
    /\ aud.w_pc = "reap" => aud.audio_mutex = "worker"
    /\ aud.c_pc \in {"joined", "destroyed"} => aud.w_pc = "exited"

====
